---- MODULE Spec2Model ----
(***************************************************************************)
(* A model of the Smart-Hire candidate/job matching engine:                *)
(*   - the structural scorer of codes.py (skill, experience, education /   *)
(*     certification and final scores, batch ranking with the gate),       *)
(*   - the semantic matcher of job_matcher.py (embedding similarity),      *)
(*   - the embedding index of embedding_manager.py (in-memory vectorstore  *)
(*     and its copy on disk),                                              *)
(*   - the resume and job parsers, the RAG chatbot of rag_chatbot.py and   *)
(*     the agent of main_system.py with its database.                      *)
(* Scores are exact rationals <<numerator, denominator>> in lowest terms.  *)
(***************************************************************************)
EXTENDS Integers, Sequences, FiniteSets, TLC

VARIABLES
    pc,           \* "idle": no call in progress; "done": a call has returned
    call,         \* the last call: a record with its op and its arguments
    ret,          \* what that call returned (or the exception it raised)
    vectorstore,  \* EmbeddingManager.vectorstore: absent (None) or the chunks held
    disk,         \* the index directory: missing, corrupt or the chunks saved
    base,         \* history: the chunks the index held when it was last created or loaded
    added,        \* history: the chunks appended by add_documents since then
    db,           \* the database: the candidates, jobs and candidate_scores tables
    rag_chain     \* RAGChatbot.rag_chain: absent (None) or the chunks its retriever reads

vars == <<pc, call, ret, vectorstore, disk, base, added, db, rag_chain>>
callVars == <<pc, call, ret>>
indexVars == <<vectorstore, disk, base, added>>
agentVars == <<db, rag_chain>>

----------------------------------------------------------------------------
(* Bounds of the model. *)

MaxSkills == 2        \* longest skill list passed to skill_match_score
MaxYears == 10        \* largest number of years passed to experience_score
MaxEduLen == 1        \* longest job education string (the resume's may be one longer)
MaxCerts == 1         \* longest job certification list (the resume's may be one longer)
ScoreGrid == 4        \* component scores passed to final_score are multiples of 1/ScoreGrid
MaxPool == 2          \* longest candidate pool passed to the batch scorer
MaxTopK == 2          \* largest top_k passed to a batch method (0 stands for None)
MaxSemPool == 3       \* longest candidate pool passed to the semantic matcher
MaxDocs == 2          \* longest chunk list passed to the embedding index in one call
MaxIndexLen == 3      \* the embedding index is not grown beyond this many chunks
MaxSearchK == 2       \* largest k passed to similarity_search
MaxFolderDocs == 2    \* most documents the resume folder yields in one ingest
MaxRagDocs == 6       \* most chunks in the index a RAGChatbot is built on
MaxTextLen == 3       \* longest free text, in symbols, passed to a parser
MaxCandidates == 2    \* most rows of the candidates table before the first call
MaxJobs == 1          \* most rows of the jobs table
MaxInterviews == 1    \* most rows of the interviews table
MaxIds == 2           \* longest list of candidate ids given to a bulk rejection
MaxScores == 6        \* most CandidateScore rows of the job whose analytics are asked

----------------------------------------------------------------------------
(* Exact rational arithmetic for the float scores. *)

Abs(n) == IF n < 0 THEN -n ELSE n

RECURSIVE GCD(_, _)
GCD(a, b) == IF b = 0 THEN a ELSE GCD(b, a % b)

\* n/d in lowest terms, d > 0
Frac(n, d) == LET g == GCD(Abs(n), d) IN <<n \div g, d \div g>>

Zero == <<0, 1>>
One == <<1, 1>>
Half == <<1, 2>>

RatLE(x, y) == x[1] * y[2] <= y[1] * x[2]
RatLT(x, y) == x[1] * y[2] < y[1] * x[2]
RatAdd(x, y) == Frac(x[1] * y[2] + y[1] * x[2], x[2] * y[2])
RatMul(x, y) == Frac(x[1] * y[1], x[2] * y[2])
RatMin(x, y) == IF RatLE(x, y) THEN x ELSE y

Range(s) == {s[i] : i \in DOMAIN s}

RECURSIVE SeqsUpTo(_, _)
SeqsUpTo(S, n) ==
    IF n = 0 THEN {<<>>}
    ELSE LET shorter == SeqsUpTo(S, n - 1)
         IN shorter \cup {Append(s, x) : s \in {t \in shorter : Len(t) = n - 1}, x \in S}

----------------------------------------------------------------------------
(* codes.py: the structural scorer. *)

SkillNames == {"python", "aws", "django"}
SkillLists == SeqsUpTo(SkillNames, MaxSkills)

skill_match_score(resume_skills, job_skills) ==
    LET matched == Range(resume_skills) \cap Range(job_skills)
    IN IF job_skills # <<>>
       THEN Frac(Cardinality(matched), Len(job_skills))
       ELSE Zero

\* a slip: the ratio is not capped at 1.0
experience_score_uncapped(actual_years, required_years) ==
    IF required_years # 0 THEN Frac(actual_years, required_years) ELSE One

experience_score(actual_years, required_years) ==
    IF required_years # 0
    THEN RatMin(Frac(actual_years, required_years), One)
    ELSE One

\* Strings are sequences of symbols; str.lower() maps each symbol. A symbol is a
\* character or, in resume and job texts, a run of characters such as a word.
Alphabet == {"a", "A", "b"}

LowerChar(c) ==
    CASE c = "A" -> "a"
      [] c = "Python" -> "python"
      [] c = "Bachelor" -> "bachelor"
      [] c = "B.Tech" -> "b.tech"
      [] c = "AWS" -> "aws"
      [] c = "Django" -> "django"
      [] c = " Solutions Architect" -> " solutions architect"
      [] OTHER -> c

lower(s) == [i \in DOMAIN s |-> LowerChar(s[i])]

\* Python's `a in b` for strings a, b
IsSubstring(a, b) ==
    \E i \in 0..(Len(b) - Len(a)) : SubSeq(b, i + 1, i + Len(a)) = a

JobEduStrings == SeqsUpTo(Alphabet, MaxEduLen)
ResumeEduStrings == SeqsUpTo(Alphabet, MaxEduLen + 1)
CertNames == {<<"a">>, <<"A">>, <<"b">>}
JobCertLists == SeqsUpTo(CertNames, MaxCerts)
ResumeCertLists == SeqsUpTo(CertNames, MaxCerts + 1)

\* a slip: the comparisons are case-sensitive
education_cert_score_case(resume_edu, job_edu, resume_certs, job_certs) ==
    LET edu_score == IF IsSubstring(job_edu, resume_edu) THEN Half ELSE Zero
        cert_score == IF \E i \in DOMAIN job_certs : job_certs[i] \in Range(resume_certs)
                      THEN Half ELSE Zero
    IN RatAdd(edu_score, cert_score)

education_cert_score(resume_edu, job_edu, resume_certs, job_certs) ==
    LET edu_score == IF IsSubstring(lower(job_edu), lower(resume_edu)) THEN Half ELSE Zero
        lowered == [i \in DOMAIN resume_certs |-> lower(resume_certs[i])]
        cert_score == IF \E i \in DOMAIN job_certs : lower(job_certs[i]) \in Range(lowered)
                      THEN Half ELSE Zero
    IN RatAdd(edu_score, cert_score)

Weighted(w, x) == RatMul(<<w, 10>>, x)

\* a slip: the optional video score is added to the total
final_score_video(skill_score, exp_score, edu_score, semantic_score, video_score, coding_score) ==
    RatAdd(RatAdd(RatAdd(RatAdd(Weighted(3, skill_score), Weighted(2, exp_score)),
                         Weighted(1, edu_score)),
                  Weighted(4, semantic_score)),
           video_score)

final_score(skill_score, exp_score, edu_score, semantic_score, video_score, coding_score) ==
    RatAdd(RatAdd(RatAdd(Weighted(3, skill_score), Weighted(2, exp_score)),
                  Weighted(1, edu_score)),
           Weighted(4, semantic_score))

----------------------------------------------------------------------------
(* config.py, resume_parser.py, job_parser.py *)

\* The attributes class Config defines under "Processing settings".
Config ==
    [CHUNK_SIZE |-> 500, CHUNK_OVERLAP |-> 50, TOP_K_CANDIDATES |-> 5,
     SIMILARITY_THRESHOLD |-> <<3, 10>>]

\* Config.<name> raises AttributeError for a name the class does not define.
HasAttr(name) == name \in DOMAIN Config

COMMON_SKILLS ==
    << <<"python">>, <<"machine learning">>, <<"deep learning">>, <<"pytorch">>,
       <<"tensorflow">>, <<"nlp">>, <<"data science">> >>
COMMON_CERTS ==
    << <<"aws certified">>, <<"azure">>, <<"gcp">>, <<"tensorflow", " certification">> >>
DEGREES == << <<"bachelor">>, <<"master">>, <<"phd">>, <<"b.tech">>, <<"m.tech">> >>

\* [term for term in vocabulary if term in text_lower]
TermsIn(vocabulary, text_lower) ==
    LET Occurs(term) == IsSubstring(term, text_lower)
    IN SelectSeq(vocabulary, Occurs)

\* re.search(r'(\\d+)\\+?\\s+years?', text_lower): in the raw string each doubled
\* backslash is a literal backslash, so the pattern is: a backslash and one or more
\* "d" (the group), one or more backslashes, a backslash, one or more "s", "year".
YearsPatternMatches(t) ==
    \E i \in 1..Len(t), nd \in 1..Len(t), nb \in 1..Len(t), ns \in 1..Len(t) :
        LET b == i + nd + nb + 1
            y == b + ns + 1
        IN /\ y <= Len(t)
           /\ t[i] = "\\"
           /\ \A j \in (i + 1)..(i + nd) : t[j] = "d"
           /\ \A j \in (i + nd + 1)..b : t[j] = "\\"
           /\ \A j \in (b + 1)..(b + ns) : t[j] = "s"
           /\ t[y] = "year"

\* for degree in DEGREES: if degree in text_lower: education = degree; break
RECURSIVE FirstDegree(_, _)
FirstDegree(text_lower, k) ==
    IF k > Len(DEGREES) THEN <<>>
    ELSE IF IsSubstring(DEGREES[k], text_lower) THEN DEGREES[k]
    ELSE FirstDegree(text_lower, k + 1)

\* float(match.group(1)) raises ValueError: the group starts with a backslash
parse_resume(resume_text) ==
    LET resume_text_lower == lower(resume_text)
    IN IF YearsPatternMatches(resume_text_lower)
       THEN [exc |-> "ValueError"]
       ELSE [exc |-> "",
             skills |-> TermsIn(COMMON_SKILLS, resume_text_lower),
             years_experience |-> 0,
             education |-> FirstDegree(resume_text_lower, 1),
             certifications |-> TermsIn(COMMON_CERTS, resume_text_lower)]

parse_job_description(job_text) ==
    LET job_text_lower == lower(job_text)
    IN IF YearsPatternMatches(job_text_lower)
       THEN [exc |-> "ValueError"]
       ELSE [exc |-> "",
             skills |-> TermsIn(COMMON_SKILLS, job_text_lower),
             required_experience |-> 0,
             education |-> FirstDegree(job_text_lower, 1),
             certifications |-> TermsIn(COMMON_CERTS, job_text_lower)]

\* codes.py semantic_similarity: the answer of the sentence-transformer model, or
\* 0.0 when encoding raised
semantic_similarity(answer) == IF answer.ok THEN answer.value ELSE Zero

\* scores.sort(key=lambda x: x[1], reverse=True): stable, equal scores keep their order
InsertByScore(sorted, x) ==
    LET after == {k \in 0..Len(sorted) : \A j \in 1..k : RatLE(x[2], sorted[j][2])}
        k == CHOOSE m \in after : \A n \in after : n <= m
    IN SubSeq(sorted, 1, k) \o <<x>> \o SubSeq(sorted, k + 1, Len(sorted))

RECURSIVE SortByScoreDesc(_)
SortByScoreDesc(scores) ==
    IF scores = <<>> THEN <<>>
    ELSE InsertByScore(SortByScoreDesc(SubSeq(scores, 1, Len(scores) - 1)),
                       scores[Len(scores)])

\* s[:k] for k >= 0
Take(s, k) == SubSeq(s, 1, IF k < Len(s) THEN k ELSE Len(s))

\* top_k or Config.TOP_K_CANDIDATES (None is modelled as 0: both are falsy)
EffectiveTopK(top_k) == IF top_k = 0 THEN Config.TOP_K_CANDIDATES ELSE top_k

\* the loop of codes.py match_candidates_to_job from candidate i on
RECURSIVE ScoreCandidates(_, _, _, _, _)
ScoreCandidates(job_data, candidate_texts, answers, i, scores) ==
    IF i > Len(candidate_texts) THEN [exc |-> "", scores |-> scores]
    ELSE
      LET resume_text == candidate_texts[i]
          resume_data == parse_resume(resume_text)
      IN IF resume_data.exc # "" THEN [exc |-> resume_data.exc]
         ELSE
           LET skill_score == skill_match_score(resume_data.skills, job_data.skills)
               exp_score == experience_score(resume_data.years_experience,
                                             job_data.required_experience)
               edu_score == education_cert_score(resume_data.education, job_data.education,
                                                 resume_data.certifications,
                                                 job_data.certifications)
               semantic_score == semantic_similarity(answers[i])
               final == final_score(skill_score, exp_score, edu_score, semantic_score,
                                    Zero, Zero)
               skip == ScoreCandidates(job_data, candidate_texts, answers, i + 1, scores)
               keep == ScoreCandidates(job_data, candidate_texts, answers, i + 1,
                                       Append(scores, <<resume_text, final>>))
           IN IF ~HasAttr("SKILL_THRESHOLD") THEN [exc |-> "AttributeError"]
              ELSE IF ~RatLE(Config["SKILL_THRESHOLD"], skill_score) THEN skip
              ELSE IF ~HasAttr("EXPERIENCE_THRESHOLD") THEN [exc |-> "AttributeError"]
              ELSE IF RatLE(Config["EXPERIENCE_THRESHOLD"], exp_score) THEN keep
              ELSE skip

codes_match_candidates_to_job(job_description, candidate_texts, top_k, answers) ==
    LET k == EffectiveTopK(top_k)
        job_data == parse_job_description(job_description)
    IN IF job_data.exc # "" THEN [status |-> "raised", exc |-> job_data.exc]
       ELSE LET loop == ScoreCandidates(job_data, candidate_texts, answers, 1, <<>>)
            IN IF loop.exc # "" THEN [status |-> "raised", exc |-> loop.exc]
               ELSE [status |-> "returned", value |-> Take(SortByScoreDesc(loop.scores), k)]

CandidateTexts ==
    { <<"5", " ", "year", "s", "Python", "Bachelor">>,
      <<"python", "tensorflow", " certification", "b.tech">>,
      <<"filler">>,
      <<"\\", "d", "\\", "\\", "s", "year">> }
JobTexts ==
    { <<"3", " ", "year", "s", "python", "bachelor">>,
      <<"filler">>,
      <<"\\", "d", "d", "\\", "\\", "\\", "s", "s", "year", "s">> }
CandidatePools == SeqsUpTo(CandidateTexts, MaxPool)

\* codes.py lines 89-97: the sample resume and the sample job description, the
\* sentences between the words the parsers look for shortened
SampleResume ==
    <<"5", " ", "year", "s", " of experience in ", "Python", ", ", "Django", " ... ",
      "B.Tech", " ... certified in ", "AWS", " Solutions Architect">>
SampleJob ==
    <<"at least ", "3", " ", "year", "s", " of experience in ", "Python", " and ", "Django",
      ". ", "Bachelor", "'s ... ", "AWS", " certification", " is a plus">>

\* codes.py score_candidate_for_job; answer: what the sentence-transformer model
\* answers for the pair of texts
codes_score_candidate_for_job(candidate_text, job_description, answer) ==
    LET resume_data == parse_resume(candidate_text)
        job_data == parse_job_description(job_description)
    IN IF resume_data.exc # "" \/ job_data.exc # "" THEN Zero
       ELSE final_score(skill_match_score(resume_data.skills, job_data.skills),
                        experience_score(resume_data.years_experience,
                                         job_data.required_experience),
                        education_cert_score(resume_data.education, job_data.education,
                                             resume_data.certifications,
                                             job_data.certifications),
                        semantic_similarity(answer), Zero, Zero)

\* The texts handed to the parsers: every text of up to MaxTextLen symbols, and
\* the texts of the batch scorer.
ParseSymbols == {"5", " ", "year", "Python", "python", "Bachelor", "master", "b.tech", "azure"}
ParseTexts == SeqsUpTo(ParseSymbols, MaxTextLen) \cup CandidateTexts \cup JobTexts

\* what the external sentence-transformer model answers for one candidate
ModelAnswers ==
    {[ok |-> FALSE, value |-> Zero]} \cup {[ok |-> TRUE, value |-> v] : v \in {Zero, Half, One}}

----------------------------------------------------------------------------
(* embedding_manager.py embed_text and job_matcher.py: the semantic matcher. *)

\* The external embedding model: a fixed vector per text. The vectors have integer
\* lengths, so that every cosine is an exact rational.
EmbeddingModel ==
    [job_x |-> <<1, 0>>, job_d |-> <<3, 4>>,
     close |-> <<4, 3>>, same_dir |-> <<8, 6>>, far |-> <<7, 24>>, opp |-> <<-1, 0>>]
SemJobTexts == {"job_x", "job_d"}
SemCandidateTexts == {"close", "same_dir", "far", "opp"}
SemPools == SeqsUpTo(SemCandidateTexts, MaxSemPool)

Dot(a, b) == a[1] * b[1] + a[2] * b[2]
Norm(a) == CHOOSE n \in 0..(Abs(a[1]) + Abs(a[2])) : n * n = Dot(a, a)

\* sklearn cosine_similarity of two rows: rows are normalized, a zero row stays zero
cosine_similarity(a, b) ==
    IF Norm(a) = 0 \/ Norm(b) = 0 THEN Zero ELSE Frac(Dot(a, b), Norm(a) * Norm(b))

\* a slip: the model's exception is not caught
embed_text_propagates(text, model_fails) ==
    IF model_fails
    THEN [raised |-> TRUE, value |-> <<>>]
    ELSE [raised |-> FALSE, value |-> EmbeddingModel[text]]

\* EmbeddingManager.embed_text: the model's vector, [] when the model raised
embed_text(text, model_fails) ==
    IF model_fails
    THEN [raised |-> FALSE, value |-> <<>>]
    ELSE [raised |-> FALSE, value |-> EmbeddingModel[text]]

\* a slip: a failed embedding is skipped instead of replaced by a zero vector
CandidateEmbeddingsSkipping(candidate_texts, job_embedding, failing) ==
    LET ok == SelectSeq([i \in DOMAIN candidate_texts |-> i], LAMBDA i : i \notin failing)
    IN [n \in DOMAIN ok |-> embed_text(candidate_texts[ok[n]], FALSE).value]

\* the loop over candidate_texts: emb, or [0] * len(job_embedding) when emb is empty
CandidateEmbeddings(candidate_texts, job_embedding, failing) ==
    [i \in DOMAIN candidate_texts |->
        LET emb == embed_text(candidate_texts[i], i \in failing).value
        IN IF emb # <<>> THEN emb ELSE [d \in DOMAIN job_embedding |-> 0]]

\* the orderings of the indices 1..n
RECURSIVE IndexOrders(_)
IndexOrders(n) ==
    IF n = 0 THEN {<<>>}
    ELSE {[i \in 1..n |-> IF i < k THEN p[i] ELSE IF i = k THEN n ELSE p[i - 1]] :
            p \in IndexOrders(n - 1), k \in 1..n}

AllIndexOrders == [n \in 0..MaxSemPool |-> IndexOrders(n)]

\* similarities.argsort(): a permutation listing the indices by ascending similarity;
\* numpy's default sort is not stable, equal similarities come in any order
ArgsortResults(similarities) ==
    LET n == Len(similarities)
    IN {p \in AllIndexOrders[n] :
          \A i \in 1..(n - 1) : RatLE(similarities[p[i]], similarities[p[i + 1]])}

Reverse(s) == [i \in DOMAIN s |-> s[Len(s) + 1 - i]]

\* job_matcher.py match_candidates_to_job. failing: the embed_text calls in which the
\* model raises (0: the job's, i: candidate i's); order: the answer of argsort.
\* The result carries the local array similarities beside the returned list.
\* a slip: the top_k entries are returned without the threshold test
MatchWithUnfiltered(job_description, candidate_texts, top_k, failing, order) ==
    LET job == embed_text(job_description, 0 \in failing)
        candidate_embeddings == CandidateEmbeddings(candidate_texts, job.value, failing)
        similarities == [i \in DOMAIN candidate_embeddings |->
                            cosine_similarity(job.value, candidate_embeddings[i])]
        top_indices == Take(Reverse(order), EffectiveTopK(top_k))
        nothing == [value |-> <<>>, similarities |-> <<>>]
    IN IF candidate_texts = <<>> \/ job.raised \/ job.value = <<>> THEN nothing
       ELSE [value |-> [n \in DOMAIN top_indices |->
                           <<candidate_texts[top_indices[n]], similarities[top_indices[n]]>>],
             similarities |-> similarities]

MatchWith(job_description, candidate_texts, top_k, failing, order) ==
    LET k == EffectiveTopK(top_k)
        job == embed_text(job_description, 0 \in failing)
        job_embedding == job.value
        calls == [i \in DOMAIN candidate_texts |->
                    embed_text(candidate_texts[i], i \in failing)]
        candidate_embeddings == CandidateEmbeddings(candidate_texts, job_embedding, failing)
        similarities == [i \in DOMAIN candidate_embeddings |->
                            cosine_similarity(job_embedding, candidate_embeddings[i])]
        top_indices == Take(Reverse(order), k)
        above == SelectSeq(top_indices,
                           LAMBDA i : RatLE(Config.SIMILARITY_THRESHOLD, similarities[i]))
        matches == [n \in DOMAIN above |-> <<candidate_texts[above[n]], similarities[above[n]]>>]
        nothing == [value |-> <<>>, similarities |-> <<>>]
    IN IF candidate_texts = <<>> THEN nothing
       ELSE IF job.raised THEN nothing
       ELSE IF job_embedding = <<>> THEN nothing
       ELSE IF \E i \in DOMAIN calls : calls[i].raised THEN nothing
       ELSE [value |-> matches, similarities |-> similarities]

\* the answers argsort may give in that call
SimilaritiesOf(job_description, candidate_texts, failing) ==
    LET job_embedding == embed_text(job_description, 0 \in failing).value
        candidate_embeddings == CandidateEmbeddings(candidate_texts, job_embedding, failing)
    IN IF job_embedding = <<>> THEN [i \in DOMAIN candidate_embeddings |-> Zero]
       ELSE [i \in DOMAIN candidate_embeddings |->
                cosine_similarity(job_embedding, candidate_embeddings[i])]

\* job_matcher.py score_candidate_for_job; failing: 1 the candidate's embed_text
\* call, 2 the job's
score_candidate_for_job(candidate_text, job_description, failing) ==
    LET candidate == embed_text(candidate_text, 1 \in failing)
        job == embed_text(job_description, 2 \in failing)
    IN IF candidate.raised \/ job.raised THEN Zero
       ELSE IF candidate.value = <<>> \/ job.value = <<>> THEN Zero
       ELSE cosine_similarity(candidate.value, job.value)

----------------------------------------------------------------------------
(* embedding_manager.py: the vectorstore and its copy on disk. *)

Chunks == {"c1", "c2"}
DocLists == SeqsUpTo(Chunks, MaxDocs)
Queries == {"q1", "q2"}

NoIndex == [present |-> FALSE, docs |-> <<>>]
Index(docs) == [present |-> TRUE, docs |-> docs]

NoDisk == [state |-> "missing", docs |-> <<>>]
CorruptDisk == [state |-> "corrupt", docs |-> <<>>]
Saved(docs) == [state |-> "saved", docs |-> docs]

\* a slip: the index is built in memory and never written to the directory
save_vectorstore_skipped(vs, dsk, save_fails) == dsk

\* save_vectorstore: the new content of the index directory; a failure of
\* save_local is logged and leaves the directory as it was
save_vectorstore(vs, dsk, save_fails) ==
    IF vs.present /\ ~save_fails THEN Saved(vs.docs) ELSE dsk

\* create_vectorstore; embed_fails: FAISS.from_documents raises
create_vectorstore(vs, dsk, documents, embed_fails, save_fails) ==
    IF documents = <<>> THEN [vectorstore |-> vs, disk |-> dsk, ok |-> FALSE]
    ELSE IF embed_fails THEN [vectorstore |-> vs, disk |-> dsk, ok |-> FALSE]
    ELSE [vectorstore |-> Index(documents),
          disk |-> save_vectorstore(Index(documents), dsk, save_fails),
          ok |-> TRUE]

\* load_vectorstore; FAISS.load_local raises on a missing or corrupt directory or
\* on a read error (load_fails)
load_vectorstore(vs, dsk, load_fails) ==
    IF dsk.state = "saved" /\ ~load_fails
    THEN [vectorstore |-> Index(dsk.docs), ok |-> TRUE]
    ELSE [vectorstore |-> vs, ok |-> FALSE]

\* a slip: the early return is taken whether or not an index exists, so the
\* index is created anew from the given chunks
add_documents_recreates(vs, dsk, documents, embed_fails, save_fails) ==
    create_vectorstore(vs, dsk, documents, embed_fails, save_fails)

\* add_documents; embed_fails: FAISS.from_documents or vectorstore.add_documents
\* raises (the latter also for an empty list, which has no vectors to add)
add_documents(vs, dsk, documents, embed_fails, save_fails) ==
    IF ~vs.present THEN create_vectorstore(vs, dsk, documents, embed_fails, save_fails)
    ELSE IF embed_fails \/ documents = <<>>
         THEN [vectorstore |-> vs, disk |-> dsk, ok |-> FALSE]
    ELSE [vectorstore |-> Index(vs.docs \o documents),
          disk |-> save_vectorstore(Index(vs.docs \o documents), dsk, save_fails),
          ok |-> TRUE]

\* The distance the external embedding model puts between a query and a chunk.
Distance ==
    [q1 |-> [c1 |-> 1, c2 |-> 2, close |-> 1, far |-> 2],
     q2 |-> [c1 |-> 2, c2 |-> 1, close |-> 2, far |-> 1]]

\* FAISS search: the positions of the index by increasing distance, equal
\* distances in insertion order
RECURSIVE Nearest(_, _, _)
Nearest(docs, query, left) ==
    IF left = {} THEN <<>>
    ELSE LET best == CHOOSE i \in left :
                        \A j \in left :
                            \/ Distance[query][docs[i]] < Distance[query][docs[j]]
                            \/ Distance[query][docs[i]] = Distance[query][docs[j]] /\ i <= j
         IN <<docs[best]>> \o Nearest(docs, query, left \ {best})

\* a slip: a search on an absent index raises instead of returning []
similarity_search_raises(vs, query, k, search_fails) ==
    IF ~vs.present THEN [vectorstore |-> vs, raised |-> TRUE, value |-> <<>>]
    ELSE IF search_fails \/ k <= 0 THEN [vectorstore |-> vs, raised |-> FALSE, value |-> <<>>]
    ELSE [vectorstore |-> vs, raised |-> FALSE,
          value |-> Take(Nearest(vs.docs, query, DOMAIN vs.docs), k)]

\* similarity_search that hands back the stored chunks without ranking them or
\* cutting the list to k
similarity_search_unranked(vs, query, k, search_fails) ==
    IF ~vs.present THEN [vectorstore |-> vs, raised |-> FALSE, value |-> <<>>]
    ELSE IF search_fails THEN [vectorstore |-> vs, raised |-> FALSE, value |-> <<>>]
    ELSE [vectorstore |-> vs, raised |-> FALSE, value |-> vs.docs]

\* similarity_search; search_fails: vectorstore.similarity_search raises, as it
\* does for k <= 0
similarity_search(vs, query, k, search_fails) ==
    IF ~vs.present THEN [vectorstore |-> vs, raised |-> FALSE, value |-> <<>>]
    ELSE IF search_fails \/ k <= 0 THEN [vectorstore |-> vs, raised |-> FALSE, value |-> <<>>]
    ELSE [vectorstore |-> vs, raised |-> FALSE,
          value |-> Take(Nearest(vs.docs, query, DOMAIN vs.docs), k)]

----------------------------------------------------------------------------
(* main_system.py, models.py, rag_chatbot.py: the agent and its database. *)

\* models.py: the tables. A row's id is its position in its table.
EmptyDb == [candidates |-> <<>>, jobs |-> <<>>, scores |-> <<>>, interviews |-> <<>>]

\* RAGChatbot.rag_chain: None, or a chain whose retriever reads the index object
\* it was built on
NoChain == [present |-> FALSE, docs |-> <<>>]
Chain(docs) == [present |-> TRUE, docs |-> docs]

\* The resume folder: load_all_resumes yields one document per page, the pages
\* of a file next to each other. A page's content is named by the text the
\* embedding model knows it as.
Files == {"f1", "f2"}
Pages == {"close", "far"}
FolderContents ==
    {d \in SeqsUpTo([source_file : Files, page_content : Pages], MaxFolderDocs) :
        \A i \in DOMAIN d : \A j \in DOMAIN d :
            (i < j /\ d[i].source_file = d[j].source_file) =>
                \A m \in i..j : d[m].source_file = d[i].source_file}

\* utils.py: the first e-mail address written in a text
extract_email_from_text == [close |-> "a@x", far |-> "b@x"]

\* resume_processor.py: every page is shorter than CHUNK_SIZE and is one chunk
split_documents(documents) == [i \in DOMAIN documents |-> documents[i].page_content]

\* ingest_resumes, the loop over documents from position i on; commit_fails: the
\* files whose insert would raise in session.commit()
\* a slip: a Candidate is inserted for every file, with no look for its email
RECURSIVE IngestLoopUnchecked(_, _, _, _, _, _)
IngestLoopUnchecked(documents, i, processed_files, candidates, candidates_added, commit_fails) ==
    IF i > Len(documents) THEN [candidates |-> candidates, value |-> candidates_added]
    ELSE LET doc == documents[i]
             filename == doc.source_file
             candidate == [email |-> extract_email_from_text[doc.page_content],
                           resume_text |-> doc.page_content]
         IN IF filename \in processed_files \/ filename \in commit_fails
            THEN IngestLoopUnchecked(documents, i + 1, processed_files \cup {filename},
                                     candidates, candidates_added, commit_fails)
            ELSE IngestLoopUnchecked(documents, i + 1, processed_files \cup {filename},
                                     Append(candidates, candidate), candidates_added + 1,
                                     commit_fails)

RECURSIVE IngestLoop(_, _, _, _, _, _)
IngestLoop(documents, i, processed_files, candidates, candidates_added, commit_fails) ==
    IF i > Len(documents) THEN [candidates |-> candidates, value |-> candidates_added]
    ELSE LET doc == documents[i]
             filename == doc.source_file
             email == extract_email_from_text[doc.page_content]
             existing_candidate == \E c \in Range(candidates) : c.email = email
             candidate == [email |-> email, resume_text |-> doc.page_content]
         IN IF filename \in processed_files
            THEN IngestLoop(documents, i + 1, processed_files, candidates,
                            candidates_added, commit_fails)
            ELSE IF existing_candidate \/ filename \in commit_fails
            THEN IngestLoop(documents, i + 1, processed_files \cup {filename}, candidates,
                            candidates_added, commit_fails)
            ELSE IngestLoop(documents, i + 1, processed_files \cup {filename},
                            Append(candidates, candidate), candidates_added + 1,
                            commit_fails)

\* a slip: the files read are counted, not the candidates committed
ingest_resumes_counting_files(vs, dsk, database, documents, embed_fails, save_fails, commit_fails) ==
    IF documents = <<>>
    THEN [vectorstore |-> vs, disk |-> dsk, db |-> database, value |-> 0]
    ELSE LET chunks == split_documents(documents)
             index == IF vs.present
                      THEN add_documents(vs, dsk, chunks, embed_fails, save_fails)
                      ELSE create_vectorstore(vs, dsk, chunks, embed_fails, save_fails)
             loop == IngestLoop(documents, 1, {}, database.candidates, 0, commit_fails)
         IN [vectorstore |-> index.vectorstore, disk |-> index.disk,
             db |-> [database EXCEPT !.candidates = loop.candidates],
             value |-> Cardinality({documents[i].source_file : i \in DOMAIN documents})]

\* AIHiringAgent.ingest_resumes
ingest_resumes(vs, dsk, database, documents, embed_fails, save_fails, commit_fails) ==
    IF documents = <<>>
    THEN [vectorstore |-> vs, disk |-> dsk, db |-> database, value |-> 0]
    ELSE LET chunks == split_documents(documents)
             index == IF vs.present
                      THEN add_documents(vs, dsk, chunks, embed_fails, save_fails)
                      ELSE create_vectorstore(vs, dsk, chunks, embed_fails, save_fails)
             loop == IngestLoop(documents, 1, {}, database.candidates, 0, commit_fails)
         IN [vectorstore |-> index.vectorstore, disk |-> index.disk,
             db |-> [database EXCEPT !.candidates = loop.candidates],
             value |-> loop.value]

\* a slip: the resumes are ingested whether or not the index was loaded
InitializeVectorstoreAlways(dsk, database, load_fails, documents, embed_fails, save_fails, commit_fails) ==
    LET loaded == load_vectorstore(NoIndex, dsk, load_fails)
        r == ingest_resumes(loaded.vectorstore, dsk, database, documents, embed_fails,
                            save_fails, commit_fails)
    IN [vectorstore |-> r.vectorstore, disk |-> r.disk, db |-> r.db,
        loaded |-> loaded.ok, ingest_calls |-> 1]

\* AIHiringAgent._initialize_vectorstore on the fresh EmbeddingManager of
\* __init__; ingest_calls counts the calls of ingest_resumes
InitializeVectorstore(dsk, database, load_fails, documents, embed_fails, save_fails, commit_fails) ==
    LET loaded == load_vectorstore(NoIndex, dsk, load_fails)
        r == ingest_resumes(loaded.vectorstore, dsk, database, documents, embed_fails,
                            save_fails, commit_fails)
    IN IF loaded.ok
       THEN [vectorstore |-> loaded.vectorstore, disk |-> dsk, db |-> database,
             loaded |-> TRUE, ingest_calls |-> 0]
       ELSE [vectorstore |-> r.vectorstore, disk |-> r.disk, db |-> r.db,
             loaded |-> FALSE, ingest_calls |-> 1]

\* RAGChatbot._initialize_chain; chain_fails: as_retriever or from_chain_type raises
InitializeChain(vs, chain_fails) ==
    IF ~vs.present THEN NoChain
    ELSE IF chain_fails THEN NoChain
    ELSE Chain(vs.docs)

\* The candidates tables ingest_resumes can have left: one row per e-mail
\* address, each with the page it was read from.
CandidateTables ==
    {t \in SeqsUpTo([email : {"a@x", "b@x"}, resume_text : Pages], MaxCandidates) :
        /\ \A i \in DOMAIN t : t[i].email = extract_email_from_text[t[i].resume_text]
        /\ \A i \in DOMAIN t : \A j \in DOMAIN t : t[i].email = t[j].email => i = j}

\* the candidate tables the schema admits: the email is the only unique column,
\* so two rows may carry the same resume text
PoolTables ==
    {t \in SeqsUpTo([email : {"a@x", "b@x"}, resume_text : Pages], MaxCandidates) :
        \A i \in DOMAIN t : \A j \in DOMAIN t : t[i].email = t[j].email => i = j}

\* AIHiringAgent.add_job; commit_fails: session.commit() raises
add_job(database, job_text, commit_fails) ==
    IF commit_fails THEN [db |-> database, value |-> 0]
    ELSE [db |-> [database EXCEPT !.jobs = Append(@, job_text)],
          value |-> Len(database.jobs) + 1]

\* a slip: a score row is inserted for every match, with no look for an existing one
RECURSIVE SaveScoresInserting(_, _, _, _, _, _)
SaveScoresInserting(matches, n, candidate_texts, job_id, scores, results) ==
    IF n > Len(matches) THEN [scores |-> scores, results |-> results]
    ELSE LET candidate_text == matches[n][1]
             score == matches[n][2]
             candidate_id == CHOOSE i \in DOMAIN candidate_texts :
                                /\ candidate_texts[i] = candidate_text
                                /\ \A j \in (i + 1)..Len(candidate_texts) :
                                      candidate_texts[j] # candidate_text
         IN SaveScoresInserting(matches, n + 1, candidate_texts, job_id,
                Append(scores, [candidate_id |-> candidate_id, job_id |-> job_id,
                                similarity_score |-> score, manual_score |-> "None",
                                feedback |-> "None", status |-> "pending"]),
                Append(results, [candidate_id |-> candidate_id,
                                 similarity_score |-> score]))

\* a slip: an existing row is replaced by a fresh one, status and all
RECURSIVE SaveScoresResetting(_, _, _, _, _, _)
SaveScoresResetting(matches, n, candidate_texts, job_id, scores, results) ==
    IF n > Len(matches) THEN [scores |-> scores, results |-> results]
    ELSE LET candidate_text == matches[n][1]
             score == matches[n][2]
             candidate_id == CHOOSE i \in DOMAIN candidate_texts :
                                /\ candidate_texts[i] = candidate_text
                                /\ \A j \in (i + 1)..Len(candidate_texts) :
                                      candidate_texts[j] # candidate_text
             existing == {e \in DOMAIN scores : /\ scores[e].candidate_id = candidate_id
                                                /\ scores[e].job_id = job_id}
             existing_score == CHOOSE e \in existing : \A f \in existing : e <= f
             fresh == [candidate_id |-> candidate_id, job_id |-> job_id,
                       similarity_score |-> score, manual_score |-> "None",
                       feedback |-> "None", status |-> "pending"]
             saved == IF existing # {} THEN [scores EXCEPT ![existing_score] = fresh]
                      ELSE Append(scores, fresh)
         IN SaveScoresResetting(matches, n + 1, candidate_texts, job_id, saved,
                                Append(results, [candidate_id |-> candidate_id,
                                                 similarity_score |-> score]))

\* AIHiringAgent.match_candidates_to_job, the loop over matches from the n-th on.
\* candidate_mapping[text] is the last candidate with that text; the query for
\* the existing score sees the scores added earlier in the loop (autoflush).
RECURSIVE SaveScores(_, _, _, _, _, _)
SaveScores(matches, n, candidate_texts, job_id, scores, results) ==
    IF n > Len(matches) THEN [scores |-> scores, results |-> results]
    ELSE LET candidate_text == matches[n][1]
             score == matches[n][2]
             candidate_id == CHOOSE i \in DOMAIN candidate_texts :
                                /\ candidate_texts[i] = candidate_text
                                /\ \A j \in (i + 1)..Len(candidate_texts) :
                                      candidate_texts[j] # candidate_text
             existing == {e \in DOMAIN scores : /\ scores[e].candidate_id = candidate_id
                                                /\ scores[e].job_id = job_id}
             existing_score == CHOOSE e \in existing : \A f \in existing : e <= f
             saved == IF existing # {}
                      THEN [scores EXCEPT ![existing_score].similarity_score = score]
                      ELSE Append(scores, [candidate_id |-> candidate_id, job_id |-> job_id,
                                           similarity_score |-> score, manual_score |-> "None",
                                           feedback |-> "None", status |-> "pending"])
         IN SaveScores(matches, n + 1, candidate_texts, job_id, saved,
                       Append(results, [candidate_id |-> candidate_id,
                                        similarity_score |-> score]))

\* match_candidates_to_job from "Prepare candidate texts for matching" on
MatchAndSave(database, job_id, top_k, failing, order, commit_fails) ==
    LET candidate_texts == [i \in DOMAIN database.candidates |->
                               database.candidates[i].resume_text]
        job_text == database.jobs[job_id]
        matches == MatchWith(job_text, candidate_texts, EffectiveTopK(top_k), failing,
                             order).value
        loop == SaveScores(matches, 1, candidate_texts, job_id, database.scores, <<>>)
    IN [db |-> IF commit_fails THEN database ELSE [database EXCEPT !.scores = loop.scores],
        value |-> loop.results, raised |-> FALSE, matcher_called |-> TRUE, log |-> "info"]

\* a slip: the job is used without the test for None
agent_match_unguarded(database, job_id, top_k, failing, order, commit_fails) ==
    IF database.candidates = <<>>
    THEN [db |-> database, value |-> <<>>, raised |-> FALSE, matcher_called |-> FALSE,
          log |-> "warning"]
    ELSE IF job_id \notin DOMAIN database.jobs
    THEN [db |-> database, value |-> <<>>, raised |-> TRUE, matcher_called |-> FALSE,
          log |-> ""]
    ELSE MatchAndSave(database, job_id, top_k, failing, order, commit_fails)

\* AIHiringAgent.match_candidates_to_job; log: the level of the message logged
agent_match_candidates_to_job(database, job_id, top_k, failing, order, commit_fails) ==
    IF job_id \notin DOMAIN database.jobs
    THEN [db |-> database, value |-> <<>>, raised |-> FALSE, matcher_called |-> FALSE,
          log |-> "error"]
    ELSE IF database.candidates = <<>>
    THEN [db |-> database, value |-> <<>>, raised |-> FALSE, matcher_called |-> FALSE,
          log |-> "warning"]
    ELSE MatchAndSave(database, job_id, top_k, failing, order, commit_fails)

\* rag_chatbot.py: search_kwargs={"k": 5}
RetrieverK == 5

\* what answer_query returns as its answer: a text, as the list of its parts
RagUnavailable == <<"RAG system not available. Please ensure documents are loaded.">>
ErrorAnswer(e) == <<"Error processing query: ", e>>

\* what the LLM may write, and what a failing chain may raise
LlmOutputs == {"an answer", "", "RAG system not available. Please ensure documents are loaded."}
ChainErrors == {"rate limit"}

\* a slip: the chain is called without the test for None
answer_query_unguarded(chain, query, chain_fails, output, e) ==
    IF ~chain.present \/ chain_fails
    THEN [answer |-> ErrorAnswer(e), sources |-> <<>>, raised |-> FALSE,
          chain_called |-> TRUE]
    ELSE [answer |-> <<output>>,
          sources |-> Take(Nearest(chain.docs, query, DOMAIN chain.docs), RetrieverK),
          raised |-> FALSE, chain_called |-> TRUE]

\* a slip: the chain is called outside the try block
answer_query_untried(chain, query, chain_fails, output, e) ==
    IF ~chain.present
    THEN [answer |-> RagUnavailable, sources |-> <<>>, raised |-> FALSE,
          chain_called |-> FALSE]
    ELSE IF chain_fails
    THEN [answer |-> <<>>, sources |-> <<>>, raised |-> TRUE, chain_called |-> TRUE]
    ELSE [answer |-> <<output>>,
          sources |-> Take(Nearest(chain.docs, query, DOMAIN chain.docs), RetrieverK),
          raised |-> FALSE, chain_called |-> TRUE]

\* RAGChatbot.answer_query. chain_fails: the retriever or the LLM raises e;
\* output: the text the LLM writes otherwise
answer_query(chain, query, chain_fails, output, e) ==
    IF ~chain.present
    THEN [answer |-> RagUnavailable, sources |-> <<>>, raised |-> FALSE,
          chain_called |-> FALSE]
    ELSE IF chain_fails
    THEN [answer |-> ErrorAnswer(e), sources |-> <<>>, raised |-> FALSE,
          chain_called |-> TRUE]
    ELSE [answer |-> <<output>>,
          sources |-> Take(Nearest(chain.docs, query, DOMAIN chain.docs), RetrieverK),
          raised |-> FALSE, chain_called |-> TRUE]

\* AIHiringAgent.schedule_interview. invitation: what send_interview_invitation
\* does ("sent": returns True, "failed": returns False, "raised": raises, as
\* strftime does on an interview_time that is no datetime); calendar_link: what
\* schedule_google_calendar_event returns ("" is None); commit_fails:
\* session.commit() raises. emails_sent and calendar_events count what the call
\* sent out; the Interview added to the session reaches the table on commit only.
schedule_interview_unchecked(database, candidate_id, job_id, meeting_link, invitation, calendar_link, commit_fails) ==
    LET interview == [candidate_id |-> candidate_id, job_id |-> job_id,
                      meeting_link |-> IF calendar_link # "" THEN calendar_link
                                       ELSE meeting_link,
                      status |-> "scheduled"]
    IN [db |-> [database EXCEPT !.interviews = Append(@, interview)],
        value |-> TRUE, raised |-> FALSE, emails_sent |-> 1,
        calendar_events |-> IF calendar_link # "" THEN 1 ELSE 0]

\* a slip: the Interview is committed whatever the invitation did
schedule_interview_committing(database, candidate_id, job_id, meeting_link, invitation, calendar_link, commit_fails) ==
    IF candidate_id \notin DOMAIN database.candidates \/ job_id \notin DOMAIN database.jobs
    THEN [db |-> database, value |-> FALSE, raised |-> FALSE, emails_sent |-> 0,
          calendar_events |-> 0]
    ELSE [db |-> [database EXCEPT !.interviews =
                     Append(@, [candidate_id |-> candidate_id, job_id |-> job_id,
                                meeting_link |-> meeting_link, status |-> "scheduled"])],
          value |-> invitation = "sent", raised |-> FALSE,
          emails_sent |-> IF invitation = "sent" THEN 1 ELSE 0, calendar_events |-> 0]

schedule_interview(database, candidate_id, job_id, meeting_link, invitation, calendar_link, commit_fails) ==
    IF candidate_id \notin DOMAIN database.candidates \/ job_id \notin DOMAIN database.jobs
    THEN [db |-> database, value |-> FALSE, raised |-> FALSE, emails_sent |-> 0,
          calendar_events |-> 0]
    ELSE IF invitation # "sent"
    THEN [db |-> database, value |-> FALSE, raised |-> FALSE, emails_sent |-> 0,
          calendar_events |-> 0]
    ELSE LET interview == [candidate_id |-> candidate_id, job_id |-> job_id,
                           meeting_link |-> IF calendar_link # "" THEN calendar_link
                                            ELSE meeting_link,
                           status |-> "scheduled"]
         IN [db |-> IF commit_fails THEN database
                    ELSE [database EXCEPT !.interviews = Append(@, interview)],
             value |-> ~commit_fails, raised |-> FALSE, emails_sent |-> 1,
             calendar_events |-> IF calendar_link # "" THEN 1 ELSE 0]

\* send_bulk_rejection_emails, the loop over candidate_ids from the n-th on.
\* email_fails: the positions of the list at which send_rejection_email returns
\* False; emailed: the candidates whose email went out, in order.
RECURSIVE RejectionLoop(_, _, _, _, _, _, _)
RejectionLoop(candidates, candidate_ids, n, job_id, email_fails, scores, emailed) ==
    IF n > Len(candidate_ids) THEN [scores |-> scores, emailed |-> emailed]
    ELSE LET candidate_id == candidate_ids[n]
             success == candidate_id \in DOMAIN candidates /\ n \notin email_fails
             matching == {e \in DOMAIN scores : /\ scores[e].candidate_id = candidate_id
                                                /\ scores[e].job_id = job_id}
             score == CHOOSE e \in matching : \A f \in matching : e <= f
         IN IF ~success
            THEN RejectionLoop(candidates, candidate_ids, n + 1, job_id, email_fails,
                               scores, emailed)
            ELSE RejectionLoop(candidates, candidate_ids, n + 1, job_id, email_fails,
                               IF matching # {}
                               THEN [scores EXCEPT ![score].status = "rejected"]
                               ELSE scores,
                               Append(emailed, candidate_id))

\* a slip: the status is set before the email is tried, for every id of the list
send_bulk_rejection_emails_marking(database, job_id, candidate_ids, email_fails, commit_fails) ==
    IF job_id \notin DOMAIN database.jobs
    THEN [db |-> database, value |-> 0, raised |-> FALSE, emailed |-> <<>>]
    ELSE LET loop == RejectionLoop(database.candidates, candidate_ids, 1, job_id,
                                   email_fails, database.scores, <<>>)
             marked == [e \in DOMAIN database.scores |->
                           IF /\ database.scores[e].job_id = job_id
                              /\ database.scores[e].candidate_id \in Range(candidate_ids)
                           THEN [database.scores[e] EXCEPT !.status = "rejected"]
                           ELSE database.scores[e]]
         IN [db |-> IF commit_fails THEN database ELSE [database EXCEPT !.scores = marked],
             value |-> Len(loop.emailed), raised |-> FALSE, emailed |-> loop.emailed]

\* AIHiringAgent.send_bulk_rejection_emails; commit_fails: the commit after the
\* loop raises and the session is rolled back
send_bulk_rejection_emails(database, job_id, candidate_ids, email_fails, commit_fails) ==
    IF job_id \notin DOMAIN database.jobs
    THEN [db |-> database, value |-> 0, raised |-> FALSE, emailed |-> <<>>]
    ELSE LET loop == RejectionLoop(database.candidates, candidate_ids, 1, job_id,
                                   email_fails, database.scores, <<>>)
         IN [db |-> IF commit_fails THEN database
                    ELSE [database EXCEPT !.scores = loop.scores],
             value |-> Len(loop.emailed), raised |-> FALSE, emailed |-> loop.emailed]

\* A NULL similarity_score column (the column is nullable, models.py line 45).
Null == <<0, 0>>

\* score.similarity_score or 0
OrZero(similarity_score) == IF similarity_score = Null THEN Zero ELSE similarity_score

\* round(x, 3): the nearest multiple of 1/1000, a tie to the even one
Round3(x) ==
    LET scaled == x[1] * 1000
        k == scaled \div x[2]
        rest == scaled - k * x[2]
        up == 2 * rest > x[2] \/ (2 * rest = x[2] /\ k % 2 = 1)
    IN Frac(IF up THEN k + 1 ELSE k, 1000)

\* sum(score.similarity_score or 0 for score in scores), from the n-th on
RECURSIVE SumOfScores(_, _)
SumOfScores(scores, n) ==
    IF n > Len(scores) THEN Zero
    ELSE RatAdd(OrZero(scores[n].similarity_score), SumOfScores(scores, n + 1))

\* sorted(scores, key=lambda x: x.similarity_score or 0, reverse=True): the
\* sort is stable, rows with equal keys keep their order
RECURSIVE SortedByScore(_, _)
SortedByScore(scores, left) ==
    IF left = {} THEN <<>>
    ELSE LET best == CHOOSE i \in left :
                        \A j \in left :
                            \/ RatLT(OrZero(scores[j].similarity_score),
                                     OrZero(scores[i].similarity_score))
                            \/ /\ OrZero(scores[j].similarity_score)
                                     = OrZero(scores[i].similarity_score)
                               /\ i <= j
         IN <<scores[best]>> \o SortedByScore(scores, left \ {best})

TopCandidates == 5

\* the loop over top_candidates from the n-th on; a score whose candidate is
\* gone is left out
RECURSIVE TopCandidateInfo(_, _, _)
TopCandidateInfo(candidates, top_candidates, n) ==
    IF n > Len(top_candidates) THEN <<>>
    ELSE LET score == top_candidates[n]
             rest == TopCandidateInfo(candidates, top_candidates, n + 1)
         IN IF score.candidate_id \in DOMAIN candidates
            THEN <<[email |-> candidates[score.candidate_id].email,
                    score |-> score.similarity_score, status |-> score.status]>> \o rest
            ELSE rest

\* a slip: the mean is taken over the rows that have a score and is not
\* rounded, and every row is listed
get_job_analytics_unrounded(database, job_id) ==
    IF job_id \notin DOMAIN database.jobs THEN [error |-> "Job not found"]
    ELSE LET scores == SelectSeq(database.scores, LAMBDA row : row.job_id = job_id)
             scored == SelectSeq(scores, LAMBDA row : row.similarity_score # Null)
             statuses == {scores[e].status : e \in DOMAIN scores}
         IN IF scores = <<>>
            THEN [job_title |-> database.jobs[job_id], total_applicants |-> 0,
                  average_score |-> Zero, status_breakdown |-> [status \in {} |-> 0]]
            ELSE [job_title |-> database.jobs[job_id],
                  total_applicants |-> Len(scores),
                  average_score |-> IF scored = <<>> THEN Zero
                                    ELSE RatMul(SumOfScores(scored, 1), Frac(1, Len(scored))),
                  status_breakdown |->
                      [status \in statuses |->
                          Cardinality({e \in DOMAIN scores : scores[e].status = status})],
                  top_candidates |->
                      TopCandidateInfo(database.candidates,
                                       SortedByScore(scores, DOMAIN scores), 1)]

\* AIHiringAgent.get_job_analytics
get_job_analytics(database, job_id) ==
    IF job_id \notin DOMAIN database.jobs THEN [error |-> "Job not found"]
    ELSE LET scores == SelectSeq(database.scores, LAMBDA row : row.job_id = job_id)
             total_applicants == Len(scores)
             average_score == RatMul(SumOfScores(scores, 1), Frac(1, total_applicants))
             statuses == {scores[e].status : e \in DOMAIN scores}
             top_candidates == Take(SortedByScore(scores, DOMAIN scores), TopCandidates)
         IN IF scores = <<>>
            THEN [job_title |-> database.jobs[job_id], total_applicants |-> 0,
                  average_score |-> Zero, status_breakdown |-> [status \in {} |-> 0]]
            ELSE [job_title |-> database.jobs[job_id],
                  total_applicants |-> total_applicants,
                  average_score |-> Round3(average_score),
                  status_breakdown |->
                      [status \in statuses |->
                          Cardinality({e \in DOMAIN scores : scores[e].status = status})],
                  top_candidates |-> TopCandidateInfo(database.candidates, top_candidates, 1)]

\* The CandidateScore rows of one job as the schema admits them: one row per
\* candidate, a similarity at or above the threshold or none, a status the
\* code assigns. The resume text plays no part in the analytics.
AnalyticsEmails == <<"a@x", "b@x", "c@x", "d@x", "e@x", "f@x", "g@x", "h@x">>

AnalyticsScores == {Null, Frac(1, 3), Frac(4, 5)}

AnalyticsRows ==
    {row \in [similarity_score : AnalyticsScores, status : {"pending", "rejected"}] :
        row.similarity_score = Null => row.status = "pending"}

AnalyticsDb(rows) ==
    [EmptyDb EXCEPT
        !.candidates = [i \in DOMAIN rows |->
                           [email |-> AnalyticsEmails[i], resume_text |-> "close"]],
        !.jobs = <<"job_x">>,
        !.scores = [i \in DOMAIN rows |->
                       [candidate_id |-> i, job_id |-> 1,
                        similarity_score |-> rows[i].similarity_score,
                        manual_score |-> "None", feedback |-> "None",
                        status |-> rows[i].status]]]

UnitScores == {Frac(k, ScoreGrid) : k \in 0..ScoreGrid}
SignedScores == {Frac(k, ScoreGrid) : k \in (-ScoreGrid)..ScoreGrid}
OptionalScores == {Zero, One}

----------------------------------------------------------------------------
(* The calls. *)

NoCall == [op |-> "none"]
NoRet == "none"

InitIndexIdle ==
    /\ vectorstore = NoIndex
    /\ disk = NoDisk
    /\ base = <<>>
    /\ added = <<>>

InitCall ==
    /\ pc = "idle"
    /\ call = NoCall
    /\ ret = NoRet

InitAgentIdle ==
    /\ db = EmptyDb
    /\ rag_chain = NoChain

CallSkillMatchScore ==
    /\ pc = "idle"
    /\ \E C \in SkillLists, J \in SkillLists :
        /\ call' = [op |-> "skill_match_score", resume_skills |-> C, job_skills |-> J]
        /\ ret' = skill_match_score(C, J)
    /\ pc' = "done"
    /\ UNCHANGED <<indexVars, agentVars>>

CallExperienceScore ==
    /\ pc = "idle"
    /\ \E a \in 0..MaxYears, r \in 0..MaxYears :
        /\ call' = [op |-> "experience_score", actual_years |-> a, required_years |-> r]
        /\ ret' = experience_score(a, r)
    /\ pc' = "done"
    /\ UNCHANGED <<indexVars, agentVars>>

CallEducationCertScore ==
    /\ pc = "idle"
    /\ \E re \in ResumeEduStrings, je \in JobEduStrings,
          rc \in ResumeCertLists, jc \in JobCertLists :
        /\ call' = [op |-> "education_cert_score", resume_edu |-> re, job_edu |-> je,
                    resume_certs |-> rc, job_certs |-> jc]
        /\ ret' = education_cert_score(re, je, rc, jc)
    /\ pc' = "done"
    /\ UNCHANGED <<indexVars, agentVars>>

CallFinalScore ==
    /\ pc = "idle"
    /\ \E s \in UnitScores, e \in UnitScores, d \in UnitScores, m \in SignedScores,
          v \in OptionalScores, c \in OptionalScores :
        /\ call' = [op |-> "final_score", skill_score |-> s, experience_score |-> e,
                    edu_score |-> d, semantic_score |-> m, video_score |-> v,
                    coding_score |-> c]
        /\ ret' = final_score(s, e, d, m, v, c)
    /\ pc' = "done"
    /\ UNCHANGED <<indexVars, agentVars>>

Return ==
    /\ pc = "done"
    /\ pc' = "idle"
    /\ call' = NoCall
    /\ ret' = NoRet
    /\ UNCHANGED <<indexVars, agentVars>>

CallCodesMatchCandidatesToJob ==
    /\ pc = "idle"
    /\ \E job \in JobTexts, pool \in CandidatePools, top_k \in 0..MaxTopK :
        \E answers \in [1..Len(pool) -> ModelAnswers] :
            /\ call' = [op |-> "codes.match_candidates_to_job", job_description |-> job,
                        candidate_texts |-> pool, top_k |-> top_k, answers |-> answers]
            /\ ret' = codes_match_candidates_to_job(job, pool, top_k, answers)
    /\ pc' = "done"
    /\ UNCHANGED <<indexVars, agentVars>>

CallEmbedText ==
    /\ pc = "idle"
    /\ \E text \in SemJobTexts \cup SemCandidateTexts, model_fails \in BOOLEAN :
        /\ call' = [op |-> "embed_text", text |-> text, model_fails |-> model_fails]
        /\ ret' = embed_text(text, model_fails)
    /\ pc' = "done"
    /\ UNCHANGED <<indexVars, agentVars>>

CallMatchCandidatesToJob ==
    /\ pc = "idle"
    /\ \E job \in SemJobTexts, pool \in SemPools, top_k \in 0..MaxTopK :
        \* when the job's call fails no candidate is embedded at all
        \E failing \in {{0}} \cup SUBSET (1..Len(pool)) :
            /\ call' = [op |-> "match_candidates_to_job", job_description |-> job,
                        candidate_texts |-> pool, top_k |-> top_k, failing |-> failing]
            /\ ret' \in {MatchWith(job, pool, top_k, failing, order) :
                            order \in ArgsortResults(SimilaritiesOf(job, pool, failing))}
    /\ pc' = "done"
    /\ UNCHANGED <<indexVars, agentVars>>

CallScoreCandidateForJob ==
    /\ pc = "idle"
    /\ \E text \in SemCandidateTexts, job \in SemJobTexts, failing \in SUBSET {1, 2} :
        /\ call' = [op |-> "score_candidate_for_job", candidate_text |-> text,
                    job_description |-> job, failing |-> failing]
        /\ ret' = score_candidate_for_job(text, job, failing)
    /\ pc' = "done"
    /\ UNCHANGED <<indexVars, agentVars>>

CallCreateVectorstore ==
    /\ pc = "idle"
    /\ \E documents \in DocLists, embed_fails \in BOOLEAN, save_fails \in BOOLEAN :
        LET r == create_vectorstore(vectorstore, disk, documents, embed_fails, save_fails)
        IN /\ call' = [op |-> "create_vectorstore", documents |-> documents,
                       embed_fails |-> embed_fails, save_fails |-> save_fails]
           /\ ret' = [ok |-> r.ok]
           /\ vectorstore' = r.vectorstore
           /\ disk' = r.disk
           /\ base' = IF r.ok THEN documents ELSE base
           /\ added' = IF r.ok THEN <<>> ELSE added
    /\ pc' = "done"
    /\ UNCHANGED agentVars

CallLoadVectorstore ==
    /\ pc = "idle"
    /\ \E load_fails \in BOOLEAN :
        LET r == load_vectorstore(vectorstore, disk, load_fails)
        IN /\ call' = [op |-> "load_vectorstore", load_fails |-> load_fails]
           /\ ret' = [ok |-> r.ok]
           /\ vectorstore' = r.vectorstore
           /\ base' = IF r.ok THEN disk.docs ELSE base
           /\ added' = IF r.ok THEN <<>> ELSE added
    /\ pc' = "done"
    /\ UNCHANGED <<disk, agentVars>>

CallAddDocuments ==
    /\ pc = "idle"
    /\ \E documents \in DocLists, embed_fails \in BOOLEAN, save_fails \in BOOLEAN :
        /\ Len(vectorstore.docs) + Len(documents) <= MaxIndexLen
        /\ LET r == add_documents(vectorstore, disk, documents, embed_fails, save_fails)
           IN /\ call' = [op |-> "add_documents", documents |-> documents,
                          embed_fails |-> embed_fails, save_fails |-> save_fails,
                          index_existed |-> vectorstore.present]
              /\ ret' = [ok |-> r.ok]
              /\ vectorstore' = r.vectorstore
              /\ disk' = r.disk
              /\ added' = IF r.ok THEN added \o documents ELSE added
    /\ pc' = "done"
    /\ UNCHANGED <<base, agentVars>>

CallSimilaritySearch ==
    /\ pc = "idle"
    /\ \E query \in Queries, k \in (-1)..MaxSearchK, search_fails \in BOOLEAN :
        LET r == similarity_search(vectorstore, query, k, search_fails)
        IN /\ call' = [op |-> "similarity_search", query |-> query, k |-> k,
                       search_fails |-> search_fails, index_existed |-> vectorstore.present]
           /\ ret' = [raised |-> r.raised, value |-> r.value]
           /\ vectorstore' = r.vectorstore
    /\ pc' = "done"
    /\ UNCHANGED <<disk, base, added, agentVars>>

\* AIHiringAgent(): a new process builds the agent over the database and the
\* index directory the earlier ones left. The index directory is writable here
\* (SpecIndex has the failing saves).
CallAgentInit ==
    /\ pc = "idle"
    /\ \E load_fails \in BOOLEAN, documents \in FolderContents, embed_fails \in BOOLEAN,
          save_fails \in {FALSE}, commit_fails \in SUBSET Files,
          chain_fails \in BOOLEAN :
        /\ commit_fails \subseteq {documents[i].source_file : i \in DOMAIN documents}
        /\ LET r == InitializeVectorstore(disk, db, load_fails, documents, embed_fails,
                                          save_fails, commit_fails)
           IN /\ r.loaded => (documents = <<>> /\ ~embed_fails)
              /\ documents = <<>> => ~embed_fails
              /\ ~r.vectorstore.present => ~chain_fails
              /\ call' = [op |-> "AIHiringAgent", load_fails |-> load_fails,
                          disk_before |-> disk, db_before |-> db,
                          documents |-> documents, chain_fails |-> chain_fails]
              /\ ret' = [loaded |-> r.loaded, ingest_calls |-> r.ingest_calls]
              /\ vectorstore' = r.vectorstore
              /\ disk' = r.disk
              /\ base' = r.vectorstore.docs
              /\ added' = <<>>
              /\ db' = r.db
              /\ rag_chain' = InitializeChain(r.vectorstore, chain_fails)
    /\ pc' = "done"

CallIngestResumes ==
    /\ pc = "idle"
    /\ \E documents \in FolderContents, embed_fails \in BOOLEAN, save_fails \in {FALSE},
          commit_fails \in SUBSET Files :
        /\ commit_fails \subseteq {documents[i].source_file : i \in DOMAIN documents}
        /\ documents = <<>> => ~embed_fails
        /\ Len(vectorstore.docs) + Len(documents) <= MaxIndexLen
        /\ LET r == ingest_resumes(vectorstore, disk, db, documents, embed_fails,
                                   save_fails, commit_fails)
           IN /\ call' = [op |-> "ingest_resumes", documents |-> documents,
                          embed_fails |-> embed_fails, save_fails |-> save_fails,
                          commit_fails |-> commit_fails,
                          index_before |-> vectorstore, disk_before |-> disk,
                          db_before |-> db]
              /\ ret' = [value |-> r.value]
              /\ vectorstore' = r.vectorstore
              /\ disk' = r.disk
              /\ base' = IF vectorstore.present THEN base ELSE r.vectorstore.docs
              /\ added' = IF vectorstore.present
                          THEN SubSeq(r.vectorstore.docs, Len(base) + 1, Len(r.vectorstore.docs))
                          ELSE <<>>
              /\ db' = r.db
              /\ rag_chain' = IF rag_chain.present /\ vectorstore.present
                              THEN Chain(r.vectorstore.docs)
                              ELSE rag_chain
    /\ pc' = "done"

\* RAGChatbot(embedding_manager)
CallNewChatbot ==
    /\ pc = "idle"
    /\ \E chain_fails \in BOOLEAN :
        /\ call' = [op |-> "RAGChatbot", chain_fails |-> chain_fails]
        /\ rag_chain' = InitializeChain(vectorstore, chain_fails)
        /\ ret' = [chain |-> rag_chain'.present]
    /\ pc' = "done"
    /\ UNCHANGED <<indexVars, db>>

CallAnswerQuery ==
    /\ pc = "idle"
    /\ \E query \in Queries, chain_fails \in BOOLEAN, output \in LlmOutputs, e \in ChainErrors :
        LET r == answer_query(rag_chain, query, chain_fails, output, e)
        IN /\ call' = [op |-> "answer_query", query |-> query, chain_fails |-> chain_fails,
                       output |-> output, e |-> e]
           /\ ret' = r
    /\ pc' = "done"
    /\ UNCHANGED <<indexVars, agentVars>>

CallParseResume ==
    /\ pc = "idle"
    /\ \E resume_text \in ParseTexts :
        /\ call' = [op |-> "parse_resume", text |-> resume_text]
        /\ ret' = parse_resume(resume_text)
    /\ pc' = "done"
    /\ UNCHANGED <<indexVars, agentVars>>

CallParseJobDescription ==
    /\ pc = "idle"
    /\ \E job_text \in ParseTexts :
        /\ call' = [op |-> "parse_job_description", text |-> job_text]
        /\ ret' = parse_job_description(job_text)
    /\ pc' = "done"
    /\ UNCHANGED <<indexVars, agentVars>>

CallCodesScoreCandidateForJob ==
    /\ pc = "idle"
    /\ \E candidate_text \in CandidateTexts \cup {SampleResume},
          job \in JobTexts \cup {SampleJob}, answer \in ModelAnswers :
        /\ call' = [op |-> "codes.score_candidate_for_job", candidate_text |-> candidate_text,
                    job_description |-> job, answer |-> answer]
        /\ ret' = [value |-> codes_score_candidate_for_job(candidate_text, job, answer)]
    /\ pc' = "done"
    /\ UNCHANGED <<indexVars, agentVars>>

CallAddJob ==
    /\ pc = "idle"
    /\ Len(db.jobs) < MaxJobs
    /\ \E job_text \in SemJobTexts, commit_fails \in BOOLEAN :
        LET r == add_job(db, job_text, commit_fails)
        IN /\ call' = [op |-> "add_job", job_text |-> job_text, commit_fails |-> commit_fails]
           /\ ret' = [value |-> r.value]
           /\ db' = r.db
    /\ pc' = "done"
    /\ UNCHANGED <<indexVars, rag_chain>>

CallAgentMatchCandidatesToJob ==
    /\ pc = "idle"
    /\ \E job_id \in 1..(MaxJobs + 1), top_k \in 0..MaxTopK,
          failing \in {{0}} \cup SUBSET (1..Len(db.candidates)), commit_fails \in BOOLEAN :
        LET matching == job_id \in DOMAIN db.jobs /\ db.candidates # <<>>
            candidate_texts == [i \in DOMAIN db.candidates |-> db.candidates[i].resume_text]
            orders == IF matching
                      THEN ArgsortResults(SimilaritiesOf(db.jobs[job_id], candidate_texts,
                                                         failing))
                      ELSE {<<>>}
        IN /\ ~matching => (failing = {} /\ ~commit_fails)
           /\ \E order \in orders :
                LET r == agent_match_candidates_to_job(db, job_id, top_k, failing, order,
                                                       commit_fails)
                IN /\ call' = [op |-> "agent.match_candidates_to_job", job_id |-> job_id,
                               top_k |-> top_k, failing |-> failing,
                               commit_fails |-> commit_fails, db_before |-> db]
                   /\ ret' = [value |-> r.value, raised |-> r.raised,
                              matcher_called |-> r.matcher_called, log |-> r.log]
                   /\ db' = r.db
    /\ pc' = "done"
    /\ UNCHANGED <<indexVars, rag_chain>>

CallScheduleInterview ==
    /\ pc = "idle"
    /\ Len(db.interviews) < MaxInterviews
    /\ \E candidate_id \in 1..(MaxCandidates + 1), job_id \in 1..(MaxJobs + 1),
          meeting_link \in {"", "room"}, invitation \in {"sent", "failed", "raised"},
          calendar_link \in {"", "htmlLink"}, commit_fails \in BOOLEAN :
        LET found == candidate_id \in DOMAIN db.candidates /\ job_id \in DOMAIN db.jobs
            r == schedule_interview(db, candidate_id, job_id, meeting_link, invitation,
                                    calendar_link, commit_fails)
        IN /\ ~found => (meeting_link = "" /\ invitation = "sent" /\ calendar_link = ""
                         /\ ~commit_fails)
           /\ invitation # "sent" => (calendar_link = "" /\ ~commit_fails)
           /\ call' = [op |-> "schedule_interview", candidate_id |-> candidate_id,
                       job_id |-> job_id, meeting_link |-> meeting_link,
                       invitation |-> invitation, calendar_link |-> calendar_link,
                       commit_fails |-> commit_fails, db_before |-> db]
           /\ ret' = [value |-> r.value, raised |-> r.raised,
                      emails_sent |-> r.emails_sent,
                      calendar_events |-> r.calendar_events]
           /\ db' = r.db
    /\ pc' = "done"
    /\ UNCHANGED <<indexVars, rag_chain>>

CallSendBulkRejectionEmails ==
    /\ pc = "idle"
    /\ \E job_id \in 1..(Len(db.jobs) + 1),
          candidate_ids \in SeqsUpTo(1..(Len(db.candidates) + 1), MaxIds),
          commit_fails \in BOOLEAN :
        \E email_fails \in SUBSET (DOMAIN candidate_ids) :
            LET r == send_bulk_rejection_emails(db, job_id, candidate_ids, email_fails,
                                                commit_fails)
            IN /\ job_id \notin DOMAIN db.jobs => (email_fails = {} /\ ~commit_fails)
               \* a failing commit shows only when a status is pending
               /\ commit_fails =>
                      send_bulk_rejection_emails(db, job_id, candidate_ids, email_fails,
                                                 FALSE).db # db
               /\ \A n \in email_fails : candidate_ids[n] \in DOMAIN db.candidates
               /\ call' = [op |-> "send_bulk_rejection_emails", job_id |-> job_id,
                           candidate_ids |-> candidate_ids, email_fails |-> email_fails,
                           commit_fails |-> commit_fails, db_before |-> db]
               /\ ret' = [value |-> r.value, raised |-> r.raised, emailed |-> r.emailed]
               /\ db' = r.db
    /\ pc' = "done"
    /\ UNCHANGED <<indexVars, rag_chain>>

CallGetJobAnalytics ==
    /\ pc = "idle"
    /\ \E job_id \in 1..(MaxJobs + 1) :
        /\ call' = [op |-> "get_job_analytics", job_id |-> job_id]
        /\ ret' = get_job_analytics(db, job_id)
    /\ pc' = "done"
    /\ UNCHANGED <<indexVars, agentVars>>

InitScore == InitCall /\ InitIndexIdle /\ InitAgentIdle

NextScore ==
    \/ CallSkillMatchScore
    \/ CallExperienceScore
    \/ CallEducationCertScore
    \/ CallFinalScore
    \/ Return

SpecScore == InitScore /\ [][NextScore]_vars

NextBatch ==
    \/ CallCodesMatchCandidatesToJob
    \/ CallCodesScoreCandidateForJob
    \/ Return

SpecBatch == InitScore /\ [][NextBatch]_vars

NextParse ==
    \/ CallParseResume
    \/ CallParseJobDescription
    \/ Return

SpecParse == InitScore /\ [][NextParse]_vars

NextSem ==
    \/ CallEmbedText
    \/ CallMatchCandidatesToJob
    \/ CallScoreCandidateForJob
    \/ Return

SpecSem == InitScore /\ [][NextSem]_vars

\* A fresh EmbeddingManager: no vectorstore in memory; the index directory may hold
\* what an earlier process saved.
InitIndex ==
    /\ InitCall
    /\ InitAgentIdle
    /\ vectorstore = NoIndex
    /\ disk \in {NoDisk, CorruptDisk, Saved(<<"c2">>)}
    /\ base = <<>>
    /\ added = <<>>

NextIndex ==
    \/ CallCreateVectorstore
    \/ CallLoadVectorstore
    \/ CallAddDocuments
    \/ CallSimilaritySearch
    \/ Return

SpecIndex == InitIndex /\ [][NextIndex]_vars

\* The agent's start-up and resume ingestion. Before the first AIHiringAgent()
\* the database is empty and the index directory holds what was left there.
InitIngest ==
    /\ InitCall
    /\ InitAgentIdle
    /\ vectorstore = NoIndex
    /\ disk \in {NoDisk, CorruptDisk, Saved(<<"far">>)}
    /\ base = <<>>
    /\ added = <<>>

NextIngest ==
    \/ CallAgentInit
    \/ CallIngestResumes
    \/ Return

SpecIngest == InitIngest /\ [][NextIngest]_vars

\* the agent's chatbot asked between restarts and ingests
NextLifecycle ==
    \/ CallAgentInit
    \/ CallIngestResumes
    \/ CallAnswerQuery
    \/ Return

SpecLifecycle == InitIngest /\ [][NextLifecycle]_vars

\* The chatbot: an EmbeddingManager with or without an index, on which
\* RAGChatbot objects are built and asked.
InitRag ==
    /\ InitCall
    /\ InitAgentIdle
    /\ vectorstore \in {NoIndex} \cup {Index(docs) : docs \in SeqsUpTo(Chunks, MaxRagDocs) \ {<<>>}}
    /\ disk = NoDisk
    /\ base = vectorstore.docs
    /\ added = <<>>

NextRag ==
    \/ CallNewChatbot
    \/ CallAnswerQuery
    \/ Return

SpecRag == InitRag /\ [][NextRag]_vars

\* The agent matching the candidates of its database to its jobs.
InitMatch ==
    /\ InitCall
    /\ InitIndexIdle
    /\ db \in {[EmptyDb EXCEPT !.candidates = t] : t \in CandidateTables}
    /\ rag_chain = NoChain

NextMatch ==
    \/ CallAddJob
    \/ CallAgentMatchCandidatesToJob
    \/ Return

SpecMatch == InitMatch /\ [][NextMatch]_vars

\* the agent's matching and rejection operations on one database
NextHiring ==
    \/ CallAddJob
    \/ CallAgentMatchCandidatesToJob
    \/ CallSendBulkRejectionEmails
    \/ Return

SpecHiring == InitMatch /\ [][NextHiring]_vars

\* interviews scheduled for the candidates and jobs of the database
NextInterview ==
    \/ CallAddJob
    \/ CallScheduleInterview
    \/ Return

SpecInterview == InitMatch /\ [][NextInterview]_vars

\* the analytics of a job with up to MaxScores applicants, and of a database
\* without job
InitAnalytics ==
    /\ InitCall
    /\ InitIndexIdle
    /\ db \in {EmptyDb} \cup {AnalyticsDb(rows) : rows \in SeqsUpTo(AnalyticsRows, MaxScores)}
    /\ rag_chain = NoChain

NextAnalytics ==
    \/ CallGetJobAnalytics
    \/ Return

SpecAnalytics == InitAnalytics /\ [][NextAnalytics]_vars

\* matching on a database whose candidate rows were not all written by ingest_resumes
InitPool ==
    /\ InitCall
    /\ InitIndexIdle
    /\ db \in {[EmptyDb EXCEPT !.candidates = t] : t \in PoolTables}
    /\ rag_chain = NoChain

SpecPool == InitPool /\ [][NextMatch]_vars

----------------------------------------------------------------------------
C2_ExperienceScore ==
    call.op = "experience_score" =>
        LET a == call.actual_years
            r == call.required_years
        IN /\ r > 0 /\ a <= r => ret[1] * r = a * ret[2]
           /\ r > 0 /\ a > r => ret = One
           /\ r = 0 => ret = One
           /\ RatLE(Zero, ret) /\ RatLE(ret, One)
           /\ \A b \in 0..a : RatLE(experience_score(b, r), ret)
           /\ (a = 10 /\ r = 3) => ret = One
           /\ (a = 1 /\ r = 4) => ret = <<1, 4>>

C2_Witness ==
    /\ call.op = "experience_score"
    /\ call.actual_years = 10
    /\ call.required_years = 3
    /\ ret = One

(* C3: education_cert_score is 0.5 when job_edu is a case-insensitive      *)
(* substring of resume_edu, plus 0.5 when some job certification equals,   *)
(* ignoring case, a resume certification; the result is 0.0, 0.5 or 1.0.   *)
SameIgnoringCase(s, t) ==
    /\ Len(s) = Len(t)
    /\ \A i \in DOMAIN s : s[i] = t[i] \/ {s[i], t[i]} = {"a", "A"}

EduMatches(job_edu, resume_edu) ==
    \E i \in 0..(Len(resume_edu) - Len(job_edu)) :
        SameIgnoringCase(job_edu, SubSeq(resume_edu, i + 1, i + Len(job_edu)))

CertMatches(job_certs, resume_certs) ==
    \E i \in DOMAIN job_certs, j \in DOMAIN resume_certs :
        SameIgnoringCase(job_certs[i], resume_certs[j])

C3_EducationCertHalves ==
    call.op = "education_cert_score" =>
        LET e == EduMatches(call.job_edu, call.resume_edu)
            c == CertMatches(call.job_certs, call.resume_certs)
        IN /\ ret \in {Zero, Half, One}
           /\ ret = RatAdd(IF e THEN Half ELSE Zero, IF c THEN Half ELSE Zero)

\* education matches only when case is ignored, no certification matches
C3_Witness ==
    /\ call.op = "education_cert_score"
    /\ call.job_edu = <<"A">>
    /\ call.resume_edu = <<"b", "a">>
    /\ call.job_certs = <<<<"b">>>>
    /\ call.resume_certs = <<<<"a">>, <<"A">>>>
    /\ ret = Half

(* C4: final_score is 0.3*skill + 0.2*experience + 0.1*edu + 0.4*semantic, *)
(* whatever video_score and coding_score are; (1,1,1,1) gives 1.0,          *)
(* (0,0,0,0) gives 0.0, and components in [0,1] give a result in [0,1].     *)
InUnit(x) == RatLE(Zero, x) /\ RatLE(x, One)

C4_FinalScoreWeights ==
    call.op = "final_score" =>
        LET s == call.skill_score
            e == call.experience_score
            d == call.edu_score
            m == call.semantic_score
            \* 10 * (0.3 s + 0.2 e + 0.1 d + 0.4 m) over the common denominator
            den == s[2] * e[2] * d[2] * m[2]
            num == 3 * s[1] * e[2] * d[2] * m[2] + 2 * e[1] * s[2] * d[2] * m[2]
                   + d[1] * s[2] * e[2] * m[2] + 4 * m[1] * s[2] * e[2] * d[2]
        IN /\ ret[1] * 10 * den = num * ret[2]
           /\ (s = One /\ e = One /\ d = One /\ m = One) => ret = One
           /\ (s = Zero /\ e = Zero /\ d = Zero /\ m = Zero) => ret = Zero
           /\ (InUnit(s) /\ InUnit(e) /\ InUnit(d) /\ InUnit(m)) => InUnit(ret)

\* all four components 1 and both optional scores given: still exactly 1.0
C4_Witness ==
    /\ call.op = "final_score"
    /\ call.skill_score = One /\ call.experience_score = One
    /\ call.edu_score = One /\ call.semantic_score = One
    /\ call.video_score = One /\ call.coding_score = One
    /\ ret = One

(* C5: the eligibility gate: match_candidates_to_job returns, and returns a *)
(* candidate only if its skill_match_score >= SKILL_THRESHOLD and its       *)
(* experience_score >= EXPERIENCE_THRESHOLD, both constants of Config.      *)
PassesGate(resume_text, job_description) ==
    LET resume_data == parse_resume(resume_text)
        job_data == parse_job_description(job_description)
    IN /\ HasAttr("SKILL_THRESHOLD") /\ HasAttr("EXPERIENCE_THRESHOLD")
       /\ RatLE(Config["SKILL_THRESHOLD"],
                skill_match_score(resume_data.skills, job_data.skills))
       /\ RatLE(Config["EXPERIENCE_THRESHOLD"],
                experience_score(resume_data.years_experience, job_data.required_experience))

C5_GateFiltersOutput ==
    (call.op = "codes.match_candidates_to_job"
        /\ parse_job_description(call.job_description).exc = ""
        /\ \A i \in DOMAIN call.candidate_texts :
               parse_resume(call.candidate_texts[i]).exc = "")
    => /\ ret.status = "returned"
       /\ \A i \in DOMAIN ret.value : PassesGate(ret.value[i][1], call.job_description)

(* C6: batch ranking: for a positive top_k match_candidates_to_job returns  *)
(* at most top_k (text, score) pairs, every text from the pool, in          *)
(* non-increasing score order.                                              *)
C6_RankedTopK ==
    (call.op = "codes.match_candidates_to_job"
        /\ call.top_k > 0
        /\ parse_job_description(call.job_description).exc = ""
        /\ \A i \in DOMAIN call.candidate_texts :
               parse_resume(call.candidate_texts[i]).exc = "")
    => /\ ret.status = "returned"
       /\ Len(ret.value) <= call.top_k
       /\ \A i \in DOMAIN ret.value : ret.value[i][1] \in Range(call.candidate_texts)
       /\ \A i, j \in DOMAIN ret.value : i < j => RatLE(ret.value[j][2], ret.value[i][2])

(* C7: in the semantic batch matcher an embedding failure of a candidate    *)
(* does not abort the ranking: every candidate is scored, a failing one     *)
(* with similarity 0, the others with their own similarity, and the list    *)
(* returned is a ranking of the pool without the failing candidates.        *)
Surviving(candidate_texts, failing) ==
    LET ok == SelectSeq([i \in DOMAIN candidate_texts |-> i], LAMBDA i : i \notin failing)
    IN [n \in DOMAIN ok |-> candidate_texts[ok[n]]]

RankingsOf(job_description, candidate_texts, top_k) ==
    {MatchWith(job_description, candidate_texts, top_k, {}, order).value :
        order \in ArgsortResults(SimilaritiesOf(job_description, candidate_texts, {}))}

C7_EmbeddingFailureTolerated ==
    (call.op = "match_candidates_to_job" /\ 0 \notin call.failing
        /\ call.candidate_texts # <<>>)
    => LET pool == call.candidate_texts
           job == EmbeddingModel[call.job_description]
       IN /\ Len(ret.similarities) = Len(pool)
          /\ \A i \in DOMAIN pool :
                ret.similarities[i] =
                    IF i \in call.failing THEN Zero
                    ELSE cosine_similarity(job, EmbeddingModel[pool[i]])
          /\ ret.value \in RankingsOf(call.job_description,
                                       Surviving(pool, call.failing), call.top_k)

\* the best candidate's embedding fails; the two others are still ranked and returned
C7_Witness ==
    /\ call.op = "match_candidates_to_job"
    /\ call.job_description = "job_d"
    /\ call.candidate_texts = <<"close", "far", "opp">>
    /\ call.failing = {1}
    /\ call.top_k = 2
    /\ ret.similarities = <<Zero, <<117, 125>>, <<-3, 5>> >>
    /\ ret.value = << <<"far", <<117, 125>> >> >>

(* C8: embed_text never propagates an exception and returns an empty vector *)
(* when the embedding model raises; score_candidate_for_job returns 0.0     *)
(* whenever the candidate's or the job's embedding is empty.                *)
C8_EmbedFailsSoft ==
    /\ call.op = "embed_text" =>
          /\ ~ret.raised
          /\ call.model_fails => ret.value = <<>>
          /\ ~call.model_fails => ret.value = EmbeddingModel[call.text]
    /\ call.op = "score_candidate_for_job" =>
          /\ call.failing # {} => ret = Zero
          /\ call.failing = {} =>
                ret = cosine_similarity(EmbeddingModel[call.candidate_text],
                                        EmbeddingModel[call.job_description])

\* the job's embedding fails, the candidate's does not: the score is 0.0
C8_Witness ==
    /\ call.op = "score_candidate_for_job"
    /\ call.candidate_text = "close"
    /\ call.failing = {2}
    /\ ret = Zero

(* C9: add_documents creates the index from the given chunks when none      *)
(* exists and appends them otherwise, without deduplication: the index      *)
(* holds the concatenation of what it was created or loaded with and of     *)
(* all the chunks added since, each as often as it was inserted.            *)
C9_UpsertAppends ==
    /\ vectorstore.docs = base \o added
    /\ ~vectorstore.present => vectorstore.docs = <<>>
    /\ (call.op = "add_documents" /\ ret.ok) =>
          /\ vectorstore.present
          /\ Len(vectorstore.docs) >= Len(call.documents)
          /\ SubSeq(vectorstore.docs, Len(vectorstore.docs) - Len(call.documents) + 1,
                    Len(vectorstore.docs)) = call.documents
          /\ ~call.index_existed => vectorstore.docs = call.documents

\* the same chunk inserted three times, by three calls, is held three times
C9_Witness ==
    /\ call.op = "add_documents"
    /\ ret.ok
    /\ call.index_existed
    /\ base = <<>>
    /\ vectorstore.docs = <<"c1", "c1", "c1">>

(* C10: similarity_search on an absent index returns an empty sequence,     *)
(* raises nothing and changes neither the vectorstore nor the disk.         *)
SearchOnAbsentIndex ==
    /\ pc = "idle"
    /\ call'.op = "similarity_search"
    /\ ~vectorstore.present

C10_SearchAbsentIndex ==
    [][SearchOnAbsentIndex =>
          /\ ret' = [raised |-> FALSE, value |-> <<>>]
          /\ vectorstore' = vectorstore
          /\ disk' = disk]_vars

\* a search has returned [] while the directory holds an index nobody loaded
C10_Witness ==
    /\ call.op = "similarity_search"
    /\ ~call.index_existed
    /\ ~vectorstore.present
    /\ disk = Saved(<<"c2">>)
    /\ ret = [raised |-> FALSE, value |-> <<>>]

\* ---------------------------------------------------------------------------
\* C11: similarity_search(query, k) returns at most k results, ordered by
\* non-increasing similarity to the query (non-decreasing distance), all of
\* them chunks of the index, and returns the empty list when k <= 0.
ByNonDecreasingDistance(query, results) ==
    \A i \in 1..Len(results) : \A j \in i..Len(results) :
        Distance[query][results[i]] <= Distance[query][results[j]]

C11_SearchAtMostKOrdered ==
    (pc = "done" /\ call.op = "similarity_search") =>
        /\ ~ret.raised
        /\ call.k <= 0 => ret.value = <<>>
        /\ call.k > 0 => Len(ret.value) <= call.k
        /\ Range(ret.value) \subseteq Range(vectorstore.docs)
        /\ ByNonDecreasingDistance(call.query, ret.value)
        /\ \A c \in Range(vectorstore.docs) : \A i \in 1..Len(ret.value) :
              Len(ret.value) = call.k => Distance[call.query][ret.value[i]] <= Distance[call.query][c]
                  \/ c \in Range(ret.value)

\* A search with k = 1 on an index of two chunks, stored farthest first,
\* returns the nearest chunk only.
C11_Witness ==
    /\ pc = "done"
    /\ call.op = "similarity_search"
    /\ call.query = "q1"
    /\ call.k = 1
    /\ vectorstore.docs = <<"c2", "c1">>
    /\ ret.value = <<"c1">>

\* A search with k = -1 on a non-empty index returns the empty list.
C11_WitnessNegativeK ==
    /\ pc = "done"
    /\ call.op = "similarity_search"
    /\ call.k < 0
    /\ vectorstore.present
    /\ Len(vectorstore.docs) > 0
    /\ ret.value = <<>>

\* ---------------------------------------------------------------------------
\* C12: round trip. After a create_vectorstore or add_documents call that
\* succeeded and persisted the index, a fresh EmbeddingManager (no index in
\* memory) that calls load_vectorstore holds the same chunks as the index in
\* memory, so every similarity_search gives the same results on both.
FreshLoad == load_vectorstore(NoIndex, disk, FALSE)

PersistedCall ==
    /\ pc = "done"
    /\ call.op \in {"create_vectorstore", "add_documents"}
    /\ ret.ok
    /\ ~call.save_fails

C12_PersistLoadRoundTrip ==
    PersistedCall =>
        /\ FreshLoad.ok
        /\ FreshLoad.vectorstore = vectorstore
        /\ \A query \in Queries : \A k \in 1..MaxSearchK :
              similarity_search(FreshLoad.vectorstore, query, k, FALSE).value
                  = similarity_search(vectorstore, query, k, FALSE).value

\* An add_documents call on an index that disagreed with the directory (the
\* directory held one chunk, the index in memory was created anew) has grown
\* the index to three chunks and saved it.
C12_Witness ==
    /\ PersistedCall
    /\ call.op = "add_documents"
    /\ call.index_existed
    /\ Len(vectorstore.docs) = 3
    /\ FreshLoad.vectorstore = vectorstore
    /\ similarity_search(FreshLoad.vectorstore, "q1", 1, FALSE).value # <<>>

\* ---------------------------------------------------------------------------
\* C13: a failed load_vectorstore (missing or corrupt index directory, or a
\* read error) returns None without raising and leaves the index absent; the
\* start-up of AIHiringAgent then calls ingest_resumes exactly once, and calls
\* it not at all when the load succeeded.
FailedLoadLeavesIndexAbsent ==
    \A dsk \in {NoDisk, CorruptDisk, disk} : \A load_fails \in BOOLEAN :
        LET r == load_vectorstore(NoIndex, dsk, load_fails)
        IN (dsk.state # "saved" \/ load_fails) => (~r.ok /\ r.vectorstore = NoIndex)

C13_LoadFailureRebuilds ==
    /\ FailedLoadLeavesIndexAbsent
    /\ (pc = "done" /\ call.op = "AIHiringAgent") =>
          /\ ret.loaded = (call.disk_before.state = "saved" /\ ~call.load_fails)
          /\ ret.loaded => (ret.ingest_calls = 0 /\ db = call.db_before
                            /\ disk = call.disk_before
                            /\ vectorstore = Index(call.disk_before.docs))
          /\ ~ret.loaded => ret.ingest_calls = 1

\* A start-up over a corrupt index directory and a folder of two resumes has
\* ingested once and rebuilt the index and the directory.
C13_Witness ==
    /\ pc = "done"
    /\ call.op = "AIHiringAgent"
    /\ call.disk_before = CorruptDisk
    /\ ~ret.loaded
    /\ ret.ingest_calls = 1
    /\ vectorstore.present
    /\ disk = Saved(vectorstore.docs)
    /\ Len(db.candidates) = 2

\* A start-up over a saved index directory has loaded it and ingested nothing.
C13_WitnessLoaded ==
    /\ pc = "done"
    /\ call.op = "AIHiringAgent"
    /\ ret.loaded
    /\ ret.ingest_calls = 0
    /\ vectorstore = Index(disk.docs)

\* ---------------------------------------------------------------------------
\* C14: when no index is available there is no RAG chain, and answer_query
\* then returns the fixed sentence 'RAG system not available. Please ensure
\* documents are loaded.' with no sources, without raising and without calling
\* the chain (the retriever and the LLM).
C14_NoChainSentinel ==
    /\ ~vectorstore.present => ~rag_chain.present
    /\ (pc = "done" /\ call.op = "answer_query" /\ ~rag_chain.present) =>
          /\ ret.answer = RagUnavailable
          /\ ret.sources = <<>>
          /\ ~ret.raised
          /\ ~ret.chain_called

\* A chatbot was built on a manager without index and then asked.
C14_Witness ==
    /\ pc = "done"
    /\ call.op = "answer_query"
    /\ ~vectorstore.present
    /\ ~rag_chain.present
    /\ ret.answer = RagUnavailable
    /\ ret.sources = <<>>

\* ---------------------------------------------------------------------------
\* C15: answer_query never raises. When the chain fails it returns 'Error
\* processing query: <message>' with no sources; when it succeeds it returns
\* the LLM's text unchanged with the retrieved chunks, the at most 5 of the
\* index nearest to the query.
C15_AnswerQueryNeverRaises ==
    (pc = "done" /\ call.op = "answer_query") =>
        /\ ~ret.raised
        /\ (rag_chain.present /\ call.chain_fails) =>
              (ret.answer = ErrorAnswer(call.e) /\ ret.sources = <<>>)
        /\ (rag_chain.present /\ ~call.chain_fails) =>
              /\ ret.answer = <<call.output>>
              /\ Len(ret.sources) <= 5
              /\ Len(ret.sources) = IF Len(rag_chain.docs) < 5 THEN Len(rag_chain.docs) ELSE 5
              /\ Range(ret.sources) \subseteq Range(rag_chain.docs)
              /\ ByNonDecreasingDistance(call.query, ret.sources)

\* A query on an index of six chunks was answered with five sources.
C15_Witness ==
    /\ pc = "done"
    /\ call.op = "answer_query"
    /\ rag_chain.present
    /\ Len(rag_chain.docs) = 6
    /\ ~call.chain_fails
    /\ ret.answer = <<"an answer">>
    /\ Len(ret.sources) = 5

\* A failing chain was answered with the error text.
C15_WitnessError ==
    /\ pc = "done"
    /\ call.op = "answer_query"
    /\ rag_chain.present
    /\ call.chain_fails
    /\ ret.answer = <<"Error processing query: ", "rate limit">>
    /\ ret.sources = <<>>

\* ---------------------------------------------------------------------------
\* C16: parse_resume and parse_job_description return as years of experience
\* the number captured by the first '<N> year(s)' occurrence in the text (one
\* or more digits, an optional '+', white space, 'year'), and 0.0 only when
\* the text has no such occurrence.
DigitValue == [c \in {"3", "5"} |-> IF c = "3" THEN 3 ELSE 5]

RECURSIVE NumberAt(_, _, _)
NumberAt(t, i, acc) ==
    IF i <= Len(t) /\ t[i] \in DOMAIN DigitValue
    THEN NumberAt(t, i + 1, acc * 10 + DigitValue[t[i]])
    ELSE [value |-> acc, next |-> i]

YearsOccurAt(t, i) ==
    /\ t[i] \in DOMAIN DigitValue
    /\ LET n == NumberAt(t, i, 0)
           p == IF n.next <= Len(t) /\ t[n.next] = "+" THEN n.next + 1 ELSE n.next
       IN \E q \in (p + 1)..Len(t) :
             /\ \A j \in p..(q - 1) : t[j] = " "
             /\ t[q] = "year"

StatedYears(t) ==
    IF \E i \in DOMAIN t : YearsOccurAt(t, i)
    THEN NumberAt(t, CHOOSE i \in DOMAIN t :
                        YearsOccurAt(t, i) /\ \A j \in 1..(i - 1) : ~YearsOccurAt(t, j), 0).value
    ELSE 0

ParseCall == pc = "done" /\ call.op \in {"parse_resume", "parse_job_description"}

YearsOf(r) ==
    IF call.op = "parse_resume" THEN r.years_experience ELSE r.required_experience

C16_YearsExtracted ==
    ParseCall =>
        /\ ret.exc = ""
        /\ YearsOf(ret) = StatedYears(lower(call.text))

\* The parser was handed '5 years ...' and did not answer 5.
C16_Example ==
    /\ ParseCall
    /\ call.op = "parse_resume"
    /\ call.text = <<"5", " ", "year">>
    /\ StatedYears(lower(call.text)) = 5
    /\ ret.exc = ""
    /\ ret.years_experience = 0

\* ---------------------------------------------------------------------------
\* C17: for every text the parser returns as education the earliest entry of
\* the list (bachelor, master, phd, b.tech, m.tech) that occurs in the
\* lower-cased text, the empty string when none occurs, and as skills and
\* certifications the vocabulary entries occurring in the text, none twice.
NoDuplicates(s) == \A i \in DOMAIN s : \A j \in DOMAIN s : s[i] = s[j] => i = j

OccurringIn(vocabulary, text_lower) ==
    {vocabulary[k] : k \in {n \in DOMAIN vocabulary : IsSubstring(vocabulary[n], text_lower)}}

EarliestDegree(text_lower) ==
    IF OccurringIn(DEGREES, text_lower) = {} THEN <<>>
    ELSE DEGREES[CHOOSE k \in DOMAIN DEGREES :
                    /\ IsSubstring(DEGREES[k], text_lower)
                    /\ \A n \in 1..(k - 1) : ~IsSubstring(DEGREES[n], text_lower)]

ParsedAsStated(r, text_lower) ==
    /\ r.education = EarliestDegree(text_lower)
    /\ NoDuplicates(r.skills)
    /\ Range(r.skills) = OccurringIn(COMMON_SKILLS, text_lower)
    /\ NoDuplicates(r.certifications)
    /\ Range(r.certifications) = OccurringIn(COMMON_CERTS, text_lower)

C17_FirstDegreeAndDistinctTerms ==
    ParseCall => (ret.exc = "" /\ ParsedAsStated(ret, lower(call.text)))

\* Whenever the parser returns, what it returns is as stated.
C17_WhenReturned ==
    (ParseCall /\ ret.exc = "") => ParsedAsStated(ret, lower(call.text))

\* 'master' is written before 'Bachelor' and 'Python' twice: the education is
\* 'bachelor', the skills are 'python' once.
C17_Example ==
    /\ ParseCall
    /\ call.text = <<"master", "Bachelor", "Python">>
    /\ ret.exc = ""
    /\ ret.education = <<"bachelor">>
    /\ ret.skills = << <<"python">> >>

\* A text on which the years pattern of the parser matches makes it raise.
C17_Raised ==
    /\ ParseCall
    /\ ret.exc = "ValueError"

\* ---------------------------------------------------------------------------
\* C18: scoring the sample resume against the sample job description gives a
\* skill_match_score of 1.0 (all job skills are in the resume), an
\* experience_score of 1.0 from 5 parsed years against 3 required, an
\* education_cert_score within [0,1], and a final score strictly greater than
\* that of a candidate text with none of those terms, whatever the embedding
\* model answers for the two texts.
SampleScored ==
    /\ pc = "done"
    /\ call.op = "codes.score_candidate_for_job"
    /\ call.candidate_text = SampleResume
    /\ call.job_description = SampleJob

NoneOfTheTerms == <<"filler">>

C18_SampleScenario ==
    SampleScored =>
        LET resume_data == parse_resume(SampleResume)
            job_data == parse_job_description(SampleJob)
        IN /\ resume_data.exc = "" /\ job_data.exc = ""
           /\ job_data.skills # <<>>
           /\ Range(job_data.skills) \subseteq Range(resume_data.skills)
           /\ skill_match_score(resume_data.skills, job_data.skills) = One
           /\ resume_data.years_experience = 5
           /\ job_data.required_experience = 3
           /\ experience_score(resume_data.years_experience,
                               job_data.required_experience) = One
           /\ InUnit(education_cert_score(resume_data.education, job_data.education,
                                          resume_data.certifications,
                                          job_data.certifications))
           /\ \A answer \in ModelAnswers :
                 RatLT(codes_score_candidate_for_job(NoneOfTheTerms, SampleJob, answer),
                       ret.value)

\* The sample resume, whose embedding failed, scores 1/2: 0.3 for the skill and
\* 0.2 for an experience score of 1.0 that comes from a requirement parsed as
\* 0 years. The text with none of the terms also gets that 0.2, and with a
\* similarity of 1.0 it scores 3/5.
C18_Example ==
    /\ SampleScored
    /\ ~call.answer.ok
    /\ parse_resume(SampleResume).years_experience = 0
    /\ parse_job_description(SampleJob).required_experience = 0
    /\ ret.value = <<1, 2>>
    /\ codes_score_candidate_for_job(NoneOfTheTerms, SampleJob, [ok |-> TRUE, value |-> One])
          = <<3, 5>>

\* What of the scenario the code does deliver.
C18_ScoresDelivered ==
    SampleScored =>
        LET resume_data == parse_resume(SampleResume)
            job_data == parse_job_description(SampleJob)
        IN /\ skill_match_score(resume_data.skills, job_data.skills) = One
           /\ experience_score(resume_data.years_experience,
                               job_data.required_experience) = One
           /\ education_cert_score(resume_data.education, job_data.education,
                                   resume_data.certifications, job_data.certifications) = Zero
           /\ \A answer \in ModelAnswers :
                 semantic_similarity(answer) = semantic_similarity(call.answer) =>
                     RatLT(codes_score_candidate_for_job(NoneOfTheTerms, SampleJob, answer),
                           ret.value)

\* ---------------------------------------------------------------------------
\* C19, as stated: match_candidates_to_job with an unknown job id or an empty
\* candidates table returns the empty list without raising, without calling
\* the matcher and without touching the database, and the unknown job reaches
\* the caller as an explicit not-found result: no call for a job that exists
\* returns what the call for an unknown job returns.
AgentMatchCall == pc = "done" /\ call.op = "agent.match_candidates_to_job"

UnknownJob == call.job_id \notin DOMAIN call.db_before.jobs

NothingToMatch == UnknownJob \/ call.db_before.candidates = <<>>

ReturnsEmptyUntouched ==
    /\ ret.value = <<>>
    /\ ~ret.raised
    /\ ~ret.matcher_called
    /\ db = call.db_before

ResultOf(database, job_id) ==
    agent_match_candidates_to_job(database, job_id, 0, {}, <<>>, FALSE).value

C19_UnknownJobExplicit ==
    AgentMatchCall =>
        /\ NothingToMatch => ReturnsEmptyUntouched
        /\ ~UnknownJob => ret.value # ResultOf(call.db_before, Len(call.db_before.jobs) + 1)

\* C19, amended: ... returns the empty list without raising, without calling
\* the matcher and without touching the database; the unknown job is reported
\* in the error log only, the caller gets the same empty list as for a job
\* that exists and has no candidates.
C19_NothingToMatchReturnsEmpty ==
    AgentMatchCall =>
        /\ NothingToMatch => ReturnsEmptyUntouched
        /\ UnknownJob => ret.log = "error"
        /\ (~UnknownJob /\ call.db_before.candidates = <<>>) =>
              /\ ret.log = "warning"
              /\ ret.value = ResultOf(call.db_before, Len(call.db_before.jobs) + 1)

\* A call for an unknown job on a database with candidates and a score.
C19_Witness ==
    /\ AgentMatchCall
    /\ UnknownJob
    /\ call.db_before.candidates # <<>>
    /\ call.db_before.scores # <<>>
    /\ ret.value = <<>>
    /\ ret.log = "error"
    /\ db = call.db_before

\* A call for a job that exists on an empty candidates table.
C19_WitnessNoCandidates ==
    /\ AgentMatchCall
    /\ ~UnknownJob
    /\ call.db_before.candidates = <<>>
    /\ ret.value = <<>>
    /\ ret.log = "warning"

\* ---------------------------------------------------------------------------
\* C20: ingest_resumes returns the number of Candidate records it committed in
\* that call: 0 when the folder yields no documents (index and database are
\* then untouched), and otherwise one per e-mail address that is not yet in
\* the database and is read from the first page of a file whose insert
\* commits; an insert that fails is rolled back, is not counted and does not
\* stop the files after it.
IngestCall == pc = "done" /\ call.op = "ingest_resumes"

EmailsOf(candidates) == {candidates[i].email : i \in DOMAIN candidates}

FirstPageOf(documents, f) ==
    documents[CHOOSE i \in DOMAIN documents :
                 /\ documents[i].source_file = f
                 /\ \A j \in 1..(i - 1) : documents[j].source_file # f].page_content

NewEmails(documents, candidates, commit_fails) ==
    {extract_email_from_text[FirstPageOf(documents, f)] :
        f \in {documents[i].source_file : i \in DOMAIN documents} \ commit_fails}
    \ EmailsOf(candidates)

C20_IngestCountsCommitted ==
    IngestCall =>
        LET before == call.db_before.candidates
            new == NewEmails(call.documents, before, call.commit_fails)
        IN /\ ret.value = Len(db.candidates) - Len(before)
           /\ SubSeq(db.candidates, 1, Len(before)) = before
           /\ db.jobs = call.db_before.jobs /\ db.scores = call.db_before.scores
           /\ ret.value = Cardinality(new)
           /\ EmailsOf(db.candidates) = EmailsOf(before) \cup new
           /\ call.documents = <<>> =>
                 /\ ret.value = 0
                 /\ db = call.db_before
                 /\ vectorstore = call.index_before
                 /\ disk = call.disk_before

\* Two files: the insert of the first failed, the second was committed and is
\* the one candidate counted.
C20_Witness ==
    /\ IngestCall
    /\ Len(call.documents) = 2
    /\ call.documents[1].source_file # call.documents[2].source_file
    /\ call.commit_fails = {call.documents[1].source_file}
    /\ extract_email_from_text[call.documents[1].page_content]
          \notin EmailsOf(call.db_before.candidates)
    /\ ret.value = 1
    /\ Len(db.candidates) = Len(call.db_before.candidates) + 1

\* Two files with the same e-mail address on a database that has neither: one
\* candidate is committed.
C20_WitnessSameEmail ==
    /\ IngestCall
    /\ Len(call.documents) = 2
    /\ call.documents[1].source_file # call.documents[2].source_file
    /\ call.documents[1].page_content = call.documents[2].page_content
    /\ call.commit_fails = {}
    /\ ret.value = 1

\* An empty folder on an agent with an index and candidates.
C20_WitnessEmptyFolder ==
    /\ IngestCall
    /\ call.documents = <<>>
    /\ vectorstore.present
    /\ db.candidates # <<>>
    /\ ret.value = 0


\* ---- C21, C28: AIHiringAgent.schedule_interview ----
ScheduleCall == pc = "done" /\ call.op = "schedule_interview"

UnknownCandidateOrJob ==
    \/ call.candidate_id \notin DOMAIN call.db_before.candidates
    \/ call.job_id \notin DOMAIN call.db_before.jobs

\* C21: schedule_interview with an unknown candidate id or an unknown job id
\* returns False without raising, sends no invitation email, creates no
\* calendar event and persists no Interview record.
C21_UnknownIdsSendNothing ==
    (ScheduleCall /\ UnknownCandidateOrJob) =>
        /\ ret.value = FALSE
        /\ ~ret.raised
        /\ ret.emails_sent = 0
        /\ ret.calendar_events = 0
        /\ db = call.db_before

C21_Witness ==
    /\ ScheduleCall
    /\ call.candidate_id \notin DOMAIN call.db_before.candidates
    /\ call.job_id \in DOMAIN call.db_before.jobs
    /\ ret.value = FALSE

C21_WitnessUnknownJob ==
    /\ ScheduleCall
    /\ call.candidate_id \in DOMAIN call.db_before.candidates
    /\ call.job_id \notin DOMAIN call.db_before.jobs
    /\ ret.value = FALSE

InterviewCommitted ==
    /\ Len(db.interviews) = Len(call.db_before.interviews) + 1
    /\ SubSeq(db.interviews, 1, Len(call.db_before.interviews)) = call.db_before.interviews
    /\ db.interviews[Len(db.interviews)].candidate_id = call.candidate_id
    /\ db.interviews[Len(db.interviews)].job_id = call.job_id

\* C28: schedule_interview is all-or-nothing on the database: an Interview is
\* committed exactly when the call returns True, it returns True only if the
\* invitation email was sent, and a failed invitation or a raising step leaves
\* no Interview behind and returns False; a missing calendar link alone does
\* not fail the call.
C28_InterviewAllOrNothing ==
    ScheduleCall =>
        /\ ~ret.raised
        /\ ret.value => (InterviewCommitted /\ ret.emails_sent = 1)
        /\ ~ret.value => db = call.db_before
        /\ (call.invitation # "sent" \/ call.commit_fails) => ~ret.value
        /\ (~UnknownCandidateOrJob /\ call.invitation = "sent" /\ ~call.commit_fails)
               => ret.value
        /\ [db EXCEPT !.interviews = <<>>] = [call.db_before EXCEPT !.interviews = <<>>]

C28_Witness ==
    /\ ScheduleCall
    /\ ret.value
    /\ call.calendar_link = ""
    /\ InterviewCommitted

C28_WitnessInvitationFailed ==
    /\ ScheduleCall
    /\ ~UnknownCandidateOrJob
    /\ call.invitation = "failed"
    /\ ~ret.value

C28_WitnessCommitFailed ==
    /\ ScheduleCall
    /\ call.commit_fails
    /\ ret.emails_sent = 1
    /\ ~ret.value
    /\ db = call.db_before

\* ---- C22: AIHiringAgent.send_bulk_rejection_emails ----
RejectionCall == pc = "done" /\ call.op = "send_bulk_rejection_emails"

\* the positions of the list whose rejection email was sent successfully
SentPositions ==
    {n \in DOMAIN call.candidate_ids :
        /\ call.job_id \in DOMAIN call.db_before.jobs
        /\ call.candidate_ids[n] \in DOMAIN call.db_before.candidates
        /\ n \notin call.email_fails}

NewlyRejected ==
    {e \in DOMAIN db.scores :
        /\ db.scores[e].status = "rejected"
        /\ call.db_before.scores[e].status # "rejected"}

\* C22: send_bulk_rejection_emails returns the number of rejection emails sent
\* successfully (0, with no email sent, for an unknown job; unknown candidate
\* ids are skipped), and a CandidateScore becomes 'rejected' only for a
\* (candidate, job) pair whose rejection email was sent in that call.
C22_RejectedOnlyWhenEmailed ==
    RejectionCall =>
        /\ ~ret.raised
        /\ ret.value = Cardinality(SentPositions)
        /\ ret.value = Len(ret.emailed)
        /\ Range(ret.emailed) = {call.candidate_ids[n] : n \in SentPositions}
        /\ call.job_id \notin DOMAIN call.db_before.jobs =>
               (ret.value = 0 /\ ret.emailed = <<>> /\ db = call.db_before)
        /\ DOMAIN db.scores = DOMAIN call.db_before.scores
        /\ \A e \in NewlyRejected :
               /\ db.scores[e].job_id = call.job_id
               /\ db.scores[e].candidate_id \in Range(ret.emailed)

C22_Witness ==
    /\ RejectionCall
    /\ Len(call.candidate_ids) = 2
    /\ call.email_fails = {1}
    /\ ret.value = 1
    /\ NewlyRejected # {}

C22_WitnessUnknownIds ==
    /\ RejectionCall
    /\ call.job_id \in DOMAIN call.db_before.jobs
    /\ \E n \in DOMAIN call.candidate_ids :
           call.candidate_ids[n] \notin DOMAIN call.db_before.candidates
    /\ ret.value = 1

C22_WitnessUnknownJob ==
    /\ RejectionCall
    /\ call.job_id \notin DOMAIN call.db_before.jobs
    /\ call.candidate_ids # <<>>
    /\ ret.value = 0

\* ---- C24, C29: the CandidateScore rows under repeated matching ----
PairsOf(scores) == {<<scores[e].candidate_id, scores[e].job_id>> : e \in DOMAIN scores}

RowsOfPair(scores, candidate_id, job_id) ==
    {e \in DOMAIN scores : /\ scores[e].candidate_id = candidate_id
                           /\ scores[e].job_id = job_id}

MatchedIds == {ret.value[n].candidate_id : n \in DOMAIN ret.value}

\* C24: after any sequence of match_candidates_to_job calls there is at most
\* one CandidateScore row per (candidate_id, job_id); a repeated match of a
\* pair overwrites the similarity_score of its row and inserts none.
C24_OneScorePerPair ==
    /\ \A e \in DOMAIN db.scores : \A f \in DOMAIN db.scores :
           (/\ db.scores[e].candidate_id = db.scores[f].candidate_id
            /\ db.scores[e].job_id = db.scores[f].job_id) => e = f
    /\ (AgentMatchCall /\ ~call.commit_fails) =>
           /\ Len(db.scores) = Len(call.db_before.scores)
                  + Cardinality({c \in MatchedIds :
                        <<c, call.job_id>> \notin PairsOf(call.db_before.scores)})
           /\ \A n \in DOMAIN ret.value :
                  \E e \in DOMAIN db.scores :
                      /\ RowsOfPair(db.scores, ret.value[n].candidate_id, call.job_id) = {e}
                      /\ db.scores[e].similarity_score = ret.value[n].similarity_score

C24_Witness ==
    /\ AgentMatchCall
    /\ ~call.commit_fails
    /\ ret.value # <<>>
    /\ \A n \in DOMAIN ret.value :
           <<ret.value[n].candidate_id, call.job_id>> \in PairsOf(call.db_before.scores)
    /\ Len(db.scores) = Len(call.db_before.scores)

\* C29: a re-match changes only the score: the rows that existed before the
\* call keep every column but similarity_score (a 'rejected' pair stays
\* 'rejected'), and no Candidate or Job record is modified.
C29_RematchChangesScoreOnly ==
    AgentMatchCall =>
        /\ db.candidates = call.db_before.candidates
        /\ db.jobs = call.db_before.jobs
        /\ db.interviews = call.db_before.interviews
        /\ Len(db.scores) >= Len(call.db_before.scores)
        /\ \A e \in DOMAIN call.db_before.scores :
               [db.scores[e] EXCEPT !.similarity_score = Zero]
                   = [call.db_before.scores[e] EXCEPT !.similarity_score = Zero]

C29_Witness ==
    /\ AgentMatchCall
    /\ ~call.commit_fails
    /\ \E e \in DOMAIN call.db_before.scores :
           /\ call.db_before.scores[e].status = "rejected"
           /\ call.db_before.scores[e].job_id = call.job_id
           /\ call.db_before.scores[e].candidate_id \in MatchedIds
           /\ db.scores[e].status = "rejected"

\* ---- C26: attribution of the scores to the candidates ----
\* the similarity computed for each candidate of the table in this call
ComputedFor ==
    SimilaritiesOf(call.db_before.jobs[call.job_id],
                   [i \in DOMAIN call.db_before.candidates |->
                       call.db_before.candidates[i].resume_text],
                   call.failing)

C26_ScoreOfAnother ==
    /\ AgentMatchCall
    /\ ret.matcher_called
    /\ \E n \in DOMAIN ret.value :
           /\ ret.value[n].candidate_id \in call.failing
           /\ ComputedFor[ret.value[n].candidate_id] = Zero
           /\ RatLT(Zero, ret.value[n].similarity_score)

\* ---- C27: ingestion and the candidates table ----
\* ingest_resumes called once more on the folder of the call just made
IngestedAgain ==
    ingest_resumes(vectorstore, disk, db, call.documents, FALSE, FALSE, {})

\* C27: ingestion is idempotent on the database: after an ingest_resumes call
\* with no database failure, a second call on the same folder adds no Candidate
\* and returns 0; and after any sequence of calls no two Candidate rows share
\* an email.
C27_IngestIdempotentOnCandidates ==
    /\ \A i \in DOMAIN db.candidates : \A j \in DOMAIN db.candidates :
           db.candidates[i].email = db.candidates[j].email => i = j
    /\ (IngestCall /\ call.commit_fails = {}) =>
           /\ IngestedAgain.value = 0
           /\ IngestedAgain.db = db

\* the first call on a folder of two files committed candidates
C27_Witness ==
    /\ IngestCall
    /\ call.commit_fails = {}
    /\ Len(call.documents) = 2
    /\ ret.value >= 1
    /\ IngestedAgain.value = 0

\* a call on a folder whose candidates are all in the table already
C27_WitnessSecondCall ==
    /\ IngestCall
    /\ call.commit_fails = {}
    /\ call.documents # <<>>
    /\ call.index_before.present
    /\ EmailsOf(db.candidates) =
           {extract_email_from_text[call.documents[i].page_content] :
               i \in DOMAIN call.documents}
    /\ ret.value = 0
    /\ db = call.db_before

\* ---- C25: the chatbot and the life of the index ----
AnswerCall == pc = "done" /\ call.op = "answer_query"

\* the ingest_resumes call just made created the index
IndexCreatedByIngest == IngestCall /\ ~call.index_before.present /\ vectorstore.present

\* C25: once ingest_resumes has created the index for an agent whose chatbot
\* was constructed without one, answer_query retrieves from that index and no
\* longer returns the 'RAG system not available' sentinel.
C25_AnswersFollowIndex ==
    IndexCreatedByIngest =>
        \A query \in Queries, output \in LlmOutputs, e \in ChainErrors :
            LET r == answer_query(rag_chain, query, FALSE, output, e)
            IN /\ r.answer # RagUnavailable
               /\ r.sources # <<>>
               /\ Range(r.sources) \subseteq Range(vectorstore.docs)

\* the index was created by ingest_resumes and the chatbot still has no chain
C25_StaleChatbot ==
    /\ IndexCreatedByIngest
    /\ ~rag_chain.present
    /\ \A query \in Queries, output \in LlmOutputs, e \in ChainErrors :
           answer_query(rag_chain, query, FALSE, output, e).answer = RagUnavailable

\* a question asked while the index exists is answered with the sentinel
C25_SentinelDespiteIndex ==
    /\ AnswerCall
    /\ vectorstore.present
    /\ ~call.chain_fails
    /\ ret.answer = RagUnavailable

\* ---- C23: AIHiringAgent.get_job_analytics ----
AnalyticsCall == pc = "done" /\ call.op = "get_job_analytics"

RowsOfJob == {e \in DOMAIN db.scores : db.scores[e].job_id = call.job_id}

RECURSIVE SumOver(_)
SumOver(rows) ==
    IF rows = {} THEN Zero
    ELSE LET e == CHOOSE x \in rows : TRUE
         IN RatAdd(OrZero(db.scores[e].similarity_score), SumOver(rows \ {e}))

RECURSIVE CountSum(_, _)
CountSum(breakdown, statuses) ==
    IF statuses = {} THEN 0
    ELSE LET status == CHOOSE x \in statuses : TRUE
         IN breakdown[status] + CountSum(breakdown, statuses \ {status})

\* the mean of the similarities of the job's rows, a missing one counted as 0
MeanScore == RatMul(SumOver(RowsOfJob), Frac(1, Cardinality(RowsOfJob)))

\* x is the multiple of 1/1000 nearest to y
RoundedTo3Places(x, y) ==
    /\ 1000 % x[2] = 0
    /\ RatLE(RatAdd(y, <<-1, 2000>>), x)
    /\ RatLE(x, RatAdd(y, <<1, 2000>>))

\* C23: get_job_analytics returns {'error': 'Job not found'} for an unknown
\* job and the all-zero summary for a job without scores; otherwise
\* total_applicants is the number of the job's CandidateScore rows,
\* average_score their mean similarity rounded to 3 places with a missing
\* score counted as 0, the status_breakdown counts add up to total_applicants,
\* and top_candidates are at most 5, in non-increasing order of score.
C23_JobAnalytics ==
    AnalyticsCall =>
        /\ call.job_id \notin DOMAIN db.jobs => ret = [error |-> "Job not found"]
        /\ (call.job_id \in DOMAIN db.jobs /\ RowsOfJob = {}) =>
               /\ ret.total_applicants = 0
               /\ ret.average_score = Zero
               /\ DOMAIN ret.status_breakdown = {}
        /\ (call.job_id \in DOMAIN db.jobs /\ RowsOfJob # {}) =>
               /\ ret.total_applicants = Cardinality(RowsOfJob)
               /\ RoundedTo3Places(ret.average_score, MeanScore)
               /\ CountSum(ret.status_breakdown, DOMAIN ret.status_breakdown)
                      = ret.total_applicants
               /\ \A status \in DOMAIN ret.status_breakdown :
                      ret.status_breakdown[status]
                          = Cardinality({e \in RowsOfJob : db.scores[e].status = status})
               /\ Len(ret.top_candidates) <= 5
               /\ Len(ret.top_candidates) =
                      IF Cardinality(RowsOfJob) < 5 THEN Cardinality(RowsOfJob) ELSE 5
               /\ \A n \in 1..(Len(ret.top_candidates) - 1) :
                      RatLE(OrZero(ret.top_candidates[n + 1].score),
                            OrZero(ret.top_candidates[n].score))

\* six applicants, one without score; the mean is not a multiple of 1/1000
C23_Witness ==
    /\ AnalyticsCall
    /\ Cardinality(RowsOfJob) = 6
    /\ \E e \in RowsOfJob : db.scores[e].similarity_score = Null
    /\ ret.total_applicants = 6
    /\ Len(ret.top_candidates) = 5
    /\ ret.average_score # MeanScore
    /\ DOMAIN ret.status_breakdown = {"pending", "rejected"}

C23_WitnessNoScores ==
    /\ AnalyticsCall
    /\ call.job_id \in DOMAIN db.jobs
    /\ RowsOfJob = {}
    /\ ret.total_applicants = 0

C23_WitnessUnknownJob ==
    /\ AnalyticsCall
    /\ call.job_id \notin DOMAIN db.jobs
    /\ db.jobs # <<>>
    /\ ret = [error |-> "Job not found"]

\* ---- C30: the similarity threshold of job_matcher.match_candidates_to_job ----
SemMatchCall == pc = "done" /\ call.op = "match_candidates_to_job"

\* C30: every pair match_candidates_to_job returns has a similarity of at
\* least Config.SIMILARITY_THRESHOLD, so a candidate whose embedding failed
\* (zero vector, similarity 0) is never returned; when the job's embedding
\* fails or the pool is empty the result is the empty list.
C30_OnlyAboveThreshold ==
    SemMatchCall =>
        /\ \A n \in DOMAIN ret.value :
               /\ RatLE(Config.SIMILARITY_THRESHOLD, ret.value[n][2])
               /\ \E i \in DOMAIN call.candidate_texts \ call.failing :
                      /\ call.candidate_texts[i] = ret.value[n][1]
                      /\ ret.similarities[i] = ret.value[n][2]
        /\ \A i \in DOMAIN ret.similarities :
               i \in call.failing =>
                   /\ ret.similarities[i] = Zero
                   /\ (\A j \in DOMAIN call.candidate_texts \ call.failing :
                          call.candidate_texts[j] # call.candidate_texts[i])
                      => \A n \in DOMAIN ret.value :
                             ret.value[n][1] # call.candidate_texts[i]
        /\ Len(ret.value) <= Len(call.candidate_texts) - Cardinality(call.failing \ {0})
        /\ (0 \in call.failing \/ call.candidate_texts = <<>>) => ret.value = <<>>

\* the embedding of the first candidate failed: it is within top_k and left out
C30_Witness ==
    /\ SemMatchCall
    /\ call.job_description = "job_x"
    /\ call.candidate_texts = <<"same_dir", "close">>
    /\ call.failing = {1}
    /\ call.top_k = 2
    /\ ret.value = << <<"close", <<4, 5>> >> >>

\* a candidate embedded without failure and below the threshold is left out
C30_WitnessBelowThreshold ==
    /\ SemMatchCall
    /\ call.job_description = "job_x"
    /\ call.candidate_texts = <<"far">>
    /\ call.failing = {}
    /\ ret.similarities = << <<7, 25>> >>
    /\ ret.value = <<>>

C30_WitnessJobFails ==
    /\ SemMatchCall
    /\ call.failing = {0}
    /\ Len(call.candidate_texts) = 2
    /\ ret.value = <<>>

====
